---- MODULE Spec2Model ----
(***************************************************************************)
(* Flashcard generation pipeline of flashcard-genius-prompt.               *)
(*                                                                         *)
(* The repository holds three versions of the FlashcardGenerator           *)
(* component:                                                              *)
(*   "openai"  src/unnamed/part_000:16-329   (chat completions, pasted key,*)
(*             fenced-block fallback, no persistence, hosted by Index)     *)
(*   "generic" src/unnamed/part_000:358-638  (Gemini, front/back cards,    *)
(*             persistence, hosted by Dashboard)                           *)
(*   "german"  src/src/components/FlashcardGenerator.tsx:26-306 (Gemini,   *)
(*             german_word cards, persistence, hosted by Dashboard)        *)
(* A behaviour runs one of them; `variant` says which.                     *)
(*                                                                         *)
(* Strings the code inspects (topic, key) are sequences of one-character   *)
(* strings.  The provider's raw text is a sequence of lexical chunks       *)
(* (prose, a ``` fence, the tag json, whitespace, a serialized JSON value, *)
(* a brace-delimited chunk that is not JSON), so that JSON.parse and the   *)
(* fence regex are computed, not assumed.                                  *)
(***************************************************************************)
EXTENDS Integers, Sequences, FiniteSets

\* ------------------------------------------------------------------ bounds
MaxTopicLen == 1
MaxCards == 2
MaxTokens == 4
MaxSessions == 1
MaxRequests == 2
MaxOtherRows == 1
MaxHistory == 12
MaxCalls == 1
MaxListed == 2
MaxStudyCards == 3
MaxAnswers == 4

\* ------------------------------------------------------------- small sets
Variants == {"openai", "generic", "german"}

Chars == {" ", "a"}

RECURSIVE SeqsUpTo(_, _)
SeqsUpTo(S, n) ==
  IF n = 0 THEN {<<>>}
  ELSE LET shorter == SeqsUpTo(S, n - 1)
       IN  shorter \cup {Append(s, x) : s \in shorter, x \in S}

Topics == SeqsUpTo(Chars, MaxTopicLen)

Keys == {<<>>, <<" ">>, <<"k">>}

Difficulties == {"intermediate", "advanced"}

\* ------------------------------------------------------- String.trim()
RECURSIVE TrimLeft(_)
TrimLeft(s) ==
  IF s = <<>> THEN s
  ELSE IF Head(s) = " " THEN TrimLeft(Tail(s)) ELSE s

RECURSIVE TrimRight(_)
TrimRight(s) ==
  IF s = <<>> THEN s
  ELSE IF s[Len(s)] = " " THEN TrimRight(SubSeq(s, 1, Len(s) - 1)) ELSE s

Trim(s) == TrimRight(TrimLeft(s))

\* ----------------------------------------------------- provider card JSON
\* A field the provider left out reads as undefined.
Absent == "undefined"

RawCard(f, b, i, d, g, e, x) ==
  [front |-> f, back |-> b, additional_info |-> i, difficulty |-> d,
   german_word |-> g, english_meaning |-> e, example_sentence |-> x]

CardFull    == RawCard("Hund", "dog", "info", "easy", Absent, Absent, Absent)
CardBare    == RawCard("a", "b", Absent, Absent, Absent, Absent, Absent)
CardBogus   == RawCard("a", "b", "info", "bogus", Absent, Absent, Absent)
CardNoSides == RawCard(Absent, Absent, "info", "hard", Absent, Absent, Absent)
CardGerman  == RawCard(Absent, Absent, Absent, "medium", "Hund", "dog", "Der Hund bellt.")

RawCards == {CardFull, CardBare, CardBogus, CardNoSides, CardGerman}

CardLists == SeqsUpTo(RawCards, MaxCards)

\* ------------------------------------------------------------ JSON values
\* ty: the JSON type of the value; fc: what its `flashcards` member is.
JsonValue(ty, fc, cs) == [ty |-> ty, fc |-> fc, cards |-> cs]

NoValue == JsonValue("none", "absent", <<>>)

Envelope(cs) == JsonValue("object", "array", cs)

JsonValues ==
  {Envelope(cs) : cs \in CardLists}
    \cup {JsonValue("object", "absent", <<>>),
          JsonValue("object", "string", <<>>),
          JsonValue("array", "absent", <<>>),
          JsonValue("number", "absent", <<>>),
          JsonValue("null", "absent", <<>>)}

\* ------------------------------------------------------------ raw text
Tok(k, v) == [k |-> k, v |-> v]

Prose  == Tok("prose", NoValue)
Fence  == Tok("fence", NoValue)
Tag    == Tok("tag", NoValue)
Ws     == Tok("ws", NoValue)
Broken == Tok("broken", NoValue)
Doc(v) == Tok("json", v)

WrapDoc == Doc(Envelope(<<CardFull>>))

WrapTokens == {Prose, Fence, Tag, Ws, Broken, WrapDoc}

RawTexts ==
  {<<Doc(v)>> : v \in JsonValues} \cup SeqsUpTo(WrapTokens, MaxTokens)

\* ------------------------------------------------------------ JSON.parse
StripWs(text) == SelectSeq(text, LAMBDA t : t.k # "ws")

\* JSON.parse(text): the text is one JSON value, whitespace around it allowed.
JSONparse(text) ==
  LET core == StripWs(text)
  IN  IF Len(core) = 1 /\ core[1].k = "json"
      THEN [ok |-> TRUE, v |-> core[1].v]
      ELSE [ok |-> FALSE, v |-> NoValue]

\* -------------------------------- /```(?:json)?\s*(\{[\s\S]*\})\s*```/
StartsWithBrace(t) == t.k = "broken" \/ (t.k = "json" /\ t.v.ty = "object")

EndsWithBrace(t) == StartsWithBrace(t)

RECURSIVE SkipWs(_, _)
SkipWs(text, j) ==
  IF j <= Len(text) /\ text[j].k = "ws" THEN SkipWs(text, j + 1) ELSE j

\* Where the capture group starts when the regex is tried at chunk i (0: it
\* does not match there): the fence, the optional tag, whitespace, then "{".
CaptureStart(text, i) ==
  IF text[i].k # "fence" THEN 0
  ELSE LET afterTag == IF i + 1 <= Len(text) /\ text[i + 1].k = "tag"
                       THEN i + 2 ELSE i + 1
           j == SkipWs(text, afterTag)
       IN  IF j <= Len(text) /\ StartsWithBrace(text[j]) THEN j ELSE 0

\* A "}" at the end of chunk k that whitespace and a fence follow.
ClosesAt(text, k) ==
  /\ EndsWithBrace(text[k])
  /\ LET m == SkipWs(text, k + 1)
     IN  m <= Len(text) /\ text[m].k = "fence"

CaptureEnds(text, s) == {k \in s..Len(text) : ClosesAt(text, k)}

MatchStarts(text) ==
  {i \in 1..Len(text) :
     CaptureStart(text, i) # 0 /\ CaptureEnds(text, CaptureStart(text, i)) # {}}

SetMin(S) == CHOOSE x \in S : \A y \in S : x <= y

SetMax(S) == CHOOSE x \in S : \A y \in S : y <= x

\* content.match(...): leftmost match, [\s\S]* greedy; jsonMatch[1].
FenceMatch(text) ==
  IF MatchStarts(text) = {} THEN [found |-> FALSE, inner |-> <<>>]
  ELSE LET s == CaptureStart(text, SetMin(MatchStarts(text)))
       IN  [found |-> TRUE,
            inner |-> SubSeq(text, s, SetMax(CaptureEnds(text, s)))]

\* ------------------------------------------------------------ errors
MsgTopic   == "Please enter a topic"
MsgKey     == "API key required"
MsgRequest == "API request failed"
MsgParse   == "Could not parse API response as JSON"
MsgFormat  == "Invalid response format from API"
MsgSaveFailed == "Failed to save session, but flashcards are still available for study"
MsgSuccess == "Successfully created flashcards"
\* Errors the runtime throws; their message text is the engine's.
NativeSyntaxError == "SyntaxError"
NativeTypeError   == "TypeError"

NoStatus == 0

Err(msg, status, detail) == [msg |-> msg, status |-> status, detail |-> detail]

Thrown(e) == [thrown |-> TRUE, err |-> e, cards |-> <<>>]

Returned(cs) == [thrown |-> FALSE, err |-> Err("", NoStatus, ""), cards |-> cs]

\* ------------------------------------------ parse step of generateFlashcards
HasFallback(v) == v = "openai"

ParseContent(v, content) ==
  LET direct == JSONparse(content)
  IN  IF direct.ok THEN [thrown |-> FALSE, err |-> Err("", NoStatus, ""), v |-> direct.v]
      ELSE IF HasFallback(v)
      THEN LET m == FenceMatch(content)
           IN  IF m.found
               THEN IF JSONparse(m.inner).ok
                    THEN [thrown |-> FALSE, err |-> Err("", NoStatus, ""),
                          v |-> JSONparse(m.inner).v]
                    ELSE [thrown |-> TRUE, err |-> Err(NativeSyntaxError, NoStatus, ""),
                          v |-> NoValue]
               ELSE [thrown |-> TRUE, err |-> Err(MsgParse, NoStatus, ""), v |-> NoValue]
      ELSE [thrown |-> TRUE, err |-> Err(MsgParse, NoStatus, ""), v |-> NoValue]

\* Mutant: a value without a flashcards array passes as an empty result.
ShapeCheck_Lenient(parsed) ==
  IF parsed.ty = "object" /\ parsed.fc = "array" THEN Returned(parsed.cards)
  ELSE Returned(<<>>)

\* if (parsedData.flashcards && Array.isArray(parsedData.flashcards)) ... else throw
ShapeCheck(parsed) ==
  IF parsed.ty = "null" THEN Thrown(Err(NativeTypeError, NoStatus, ""))
  ELSE IF parsed.ty = "object" /\ parsed.fc = "array" THEN Returned(parsed.cards)
  ELSE Thrown(Err(MsgFormat, NoStatus, ""))

Normalize(v, content) ==
  LET p == ParseContent(v, content)
  IN  IF p.thrown THEN Thrown(p.err) ELSE ShapeCheck(p.v)

\* ------------------------------------------------------------ provider
HttpStatuses == {200, 429, 500}

HttpOk(status) == status >= 200 /\ status <= 299

\* What the body of the HTTP response is: not JSON at all ("html"), the JSON
\* value null, an {"error":{"message":...}} object, an object without
\* error.message and without the text path ("other"), or the success
\* envelope whose text path holds `text`.
BodyKinds == {"html", "null", "error", "other", "text"}

Response(kind, status, body, text) ==
  [kind |-> kind, status |-> status, body |-> body, text |-> text]

NoResponse == Response("none", NoStatus, "html", <<>>)

\* fetch() rejected: no connectivity, DNS, CORS.
Rejected == Response("reject", NoStatus, "html", <<>>)

ResponsesOver(statuses, bodies, texts) ==
  {Rejected}
    \cup {Response("http", st, b, <<>>) : st \in statuses, b \in bodies}
    \cup {Response("http", 200, "text", t) : t \in texts}

\* Every response the model knows.
AllResponses == ResponsesOver(HttpStatuses, BodyKinds \ {"text"}, RawTexts)

\* The responses the whole-application specification feeds the generator
\* with: one of each kind of outcome.
CommonTexts ==
  {<<Doc(Envelope(<<>>))>>, <<Doc(Envelope(<<CardFull>>))>>,
   <<Doc(Envelope(<<CardGerman>>))>>, <<Doc(JsonValue("object", "absent", <<>>))>>,
   <<Prose>>}

CommonResponses == ResponsesOver({500}, {"html", "error"}, CommonTexts)

\* ---------------------------------- generateFlashcards, from fetch to parse
\* What the code between `await fetch(...)` and the shape check produces for
\* a settled request: an error thrown into the catch block, or the array
\* parsedData.flashcards.
FetchOutcome(v, r) ==
  IF r.kind = "reject" THEN Thrown(Err(NativeTypeError, NoStatus, ""))
  ELSE IF ~HttpOk(r.status)
  THEN IF v = "openai" THEN Thrown(Err(MsgRequest, r.status, ""))
       ELSE IF r.body = "html" THEN Thrown(Err(NativeSyntaxError, NoStatus, ""))
       ELSE IF r.body = "null" THEN Thrown(Err(NativeTypeError, NoStatus, ""))
       ELSE Thrown(Err(MsgRequest, r.status,
                       IF r.body = "error" THEN "provider message"
                       ELSE "Unknown error"))
  ELSE IF r.body = "html" THEN Thrown(Err(NativeSyntaxError, NoStatus, ""))
  ELSE IF r.body # "text" THEN Thrown(Err(NativeTypeError, NoStatus, ""))
  ELSE Normalize(v, r.text)

\* ------------------------------------------------------------ persistence
User == "alice"

\* Mutant: the cards are handed over without saveFlashcardSession.
Persists_Never(v) == FALSE

\* await saveFlashcardSession(...) precedes the callback in the Gemini versions.
Persists(v) == v # "openai"

\* flashcards.map(card => ({session_id, german_word, ...})) of each version.
FlashcardInsert(v, sid, card) ==
  IF v = "german"
  THEN [session_id |-> sid, german_word |-> card.german_word,
        english_meaning |-> card.english_meaning,
        example_sentence |-> card.example_sentence,
        difficulty |-> card.difficulty]
  ELSE [session_id |-> sid, german_word |-> card.front,
        english_meaning |-> card.back,
        example_sentence |-> card.additional_info,
        difficulty |-> card.difficulty]

\* Mutant: the last card is left out of the bulk insert.
FlashcardInserts_DropLast(v, sid, cs) ==
  [i \in 1..(IF cs = <<>> THEN 0 ELSE Len(cs) - 1) |-> FlashcardInsert(v, sid, cs[i])]

FlashcardInserts(v, sid, cs) ==
  [i \in 1..Len(cs) |-> FlashcardInsert(v, sid, cs[i])]

\* session_flashcards: every content column is TEXT NOT NULL; an undefined
\* member is left out of the request body and arrives as NULL.
ViolatesNotNull(row) ==
  \/ row.german_word = Absent
  \/ row.english_meaning = Absent
  \/ row.example_sentence = Absent
  \/ row.difficulty = Absent

SessionRow(id, uid, t, d, n, at) ==
  [id |-> id, user_id |-> uid, topic |-> t, difficulty |-> d,
   flashcard_count |-> n, created_at |-> at]

StoredCard(id, ins, at) ==
  [id |-> id, session_id |-> ins.session_id, german_word |-> ins.german_word,
   english_meaning |-> ins.english_meaning,
   example_sentence |-> ins.example_sentence, difficulty |-> ins.difficulty,
   created_at |-> at]

\* ------------------------------------------------------------ row level security
\* A second account of the same project.
Other == "bob"

Users == {User, Other}

\* Mutant: the SELECT policy lets every authenticated user through.
SessionVisible_Any(uid, row) == TRUE

\* "Users can view their own sessions": USING (auth.uid() = user_id)
SessionVisible(uid, row) == uid = row.user_id

\* "Users can create their own sessions": WITH CHECK (auth.uid() = user_id)
SessionInsertAllowed(uid, row) == uid = row.user_id

\* Mutant: the DELETE policy lets every authenticated user through.
SessionDeleteAllowed_Any(uid, row) == TRUE

\* "Users can delete their own sessions": USING (auth.uid() = user_id)
SessionDeleteAllowed(uid, row) == uid = row.user_id

\* EXISTS (SELECT 1 FROM flashcard_sessions WHERE flashcard_sessions.id =
\* session_flashcards.session_id AND flashcard_sessions.user_id = auth.uid())
OwnsSession(uid, sid, tbl) ==
  \E i \in 1..Len(tbl) : tbl[i].id = sid /\ tbl[i].user_id = uid

\* "Users can view flashcards from their sessions"
CardVisible(uid, card, tbl) == OwnsSession(uid, card.session_id, tbl)

\* Mutant: neither the reference nor the policy is checked on insert.
CardInsertAllowed_Unchecked(uid, sid, tbl) == TRUE

\* session_id REFERENCES flashcard_sessions(id) NOT NULL, and
\* "Users can create flashcards for their sessions"
CardInsertAllowed(uid, sid, tbl) ==
  /\ \E i \in 1..Len(tbl) : tbl[i].id = sid
  /\ OwnsSession(uid, sid, tbl)

\* "Users can delete flashcards from their sessions"
CardDeleteAllowed(uid, card, tbl) == OwnsSession(uid, card.session_id, tbl)

\* profiles: USING / WITH CHECK (auth.uid() = id), no DELETE policy
ProfileWritable(uid, owner, op) == op # "delete" /\ uid = owner

\* user_settings: USING / WITH CHECK (auth.uid() = user_id)
SettingsWritable(uid, owner) == uid = owner

\* flashcard_sessions and session_flashcards have no UPDATE policy.
RowUpdateAllowed(uid, owner) == FALSE

\* ------------------------------------------------------------ queries
Range(seq) == {seq[i] : i \in 1..Len(seq)}

\* Mutant: the limit ignored.
Take_All(seq, n) == seq

Take(seq, n) == SubSeq(seq, 1, IF Len(seq) < n THEN Len(seq) ELSE n)

\* ORDER BY created_at: the orders of the rows S the sort may produce; rows
\* with equal created_at come in any order.
RECURSIVE Ascending(_)
Ascending(S) ==
  IF S = {} THEN {<<>>}
  ELSE LET firsts == {r \in S : \A q \in S : r.created_at <= q.created_at}
       IN  UNION {{<<r>> \o t : t \in Ascending(S \ {r})} : r \in firsts}

RECURSIVE Descending(_)
Descending(S) ==
  IF S = {} THEN {<<>>}
  ELSE LET firsts == {r \in S : \A q \in S : r.created_at >= q.created_at}
       IN  UNION {{<<r>> \o t : t \in Descending(S \ {r})} : r \in firsts}

\* .limit(10)
SessionLimit == 10

\* from('flashcard_sessions').select('*').eq('user_id', owner)
\*   .order('created_at', {ascending: false}).limit(10), issued by uid
SelectSessions(uid, owner, tbl) ==
  {Take(o, SessionLimit) :
     o \in Descending({r \in Range(tbl) : SessionVisible(uid, r) /\ r.user_id = owner})}

\* from('session_flashcards').select('*').eq('session_id', sid)
\*   .order('created_at', {ascending: true}), issued by uid
SelectCards(uid, sid, cards, tbl) ==
  Ascending({c \in Range(cards) : CardVisible(uid, c, tbl) /\ c.session_id = sid})

\* from('flashcard_sessions').delete().eq('id', sid), issued by uid: the ids
\* of the rows it removes.
DeletedIds(uid, sid, tbl) ==
  {r.id : r \in {q \in Range(tbl) : q.id = sid /\ SessionDeleteAllowed(uid, q)}}

WithoutSessions(tbl, gone) == SelectSeq(tbl, LAMBDA r : r.id \notin gone)

\* Mutant: the foreign key without ON DELETE CASCADE enforcement.
CascadeCards_None(cards, gone) == cards

\* session_id ... ON DELETE CASCADE
CascadeCards(cards, gone) == SelectSeq(cards, LAMBDA c : c.session_id \notin gone)

\* Mutant: the two sides exchanged on the way back.
LoadedCard_Swapped(row) ==
  [id |-> row.id, front |-> row.english_meaning, back |-> row.german_word,
   additional_info |-> row.example_sentence, difficulty |-> row.difficulty]

\* loadSession: data.map(card => ({id, front: card.german_word, ...}))
LoadedCard(row) ==
  [id |-> row.id, front |-> row.german_word, back |-> row.english_meaning,
   additional_info |-> row.example_sentence, difficulty |-> row.difficulty]

LoadedCards(rows) == [i \in 1..Len(rows) |-> LoadedCard(rows[i])]

\* ------------------------------------------------------------ state
VARIABLES
  variant,        \* which version of the generator the application runs
  \* FlashcardGenerator component state (of the mounted instance)
  topic, difficulty, apiKey, isGenerating,
  keyFetch,       \* "pending" while fetchGeminiApiKey awaits user_settings
  \* the generateFlashcards call in flight
  pc,             \* "idle", "awaitFetch", "awaitSessionInsert", "awaitCardsInsert"
  closure,        \* topic / difficulty / key the running call closed over
  net,            \* the settled provider response not yet consumed
  chainCards,     \* parsedData.flashcards of the running call
  chainSession,   \* sessionData.id of the running call
  \* host page state (Dashboard, or Index for the "openai" version)
  hasGeminiKey, loading, showGenerator, showStudyMode, flashcards, currentView,
  showHistory,    \* Dashboard of src/unnamed/part_001:864
  \* SessionHistory component state (of the mounted instance)
  histSessions, histLoading,
  histReqs,       \* storage requests of SessionHistory that are in flight
  \* storage
  settingsKey,    \* user_settings.gemini_api_key of the user (<<>>: NULL)
  sessions,       \* flashcard_sessions rows, in insertion order
  sessionCards,   \* session_flashcards rows, in insertion order
  nextId, clock,
  profileName,    \* profiles.full_name of the user
  saved,          \* the card sequences saveFlashcardSession stored (observation only)
  \* what the latest generateFlashcards call did (observation only)
  gen,
  hist,           \* what SessionHistory and saveFlashcardSession did (observation only)
  other,          \* what the second user's requests returned (observation only)
  calls,          \* the generateFlashcards calls in flight besides the one followed
  \* StudyMode component state
  currentIndex, isFlipped, correctAnswers, incorrectAnswers,
  \* the route shown, and the Settings page
  route,          \* "/", "/dashboard" or "/settings"
  settingsPage,   \* settings.gemini_api_key, saving, the upsert in flight, the toast
  settingsRows    \* number of user_settings rows of the user

genVars   == <<topic, difficulty, apiKey, isGenerating, keyFetch>>
chainVars == <<pc, closure, net, chainCards, chainSession>>
histVars  == <<histSessions, histLoading, histReqs, hist>>
hostVars  == <<hasGeminiKey, loading, showGenerator, showStudyMode, flashcards, currentView,
               showHistory, histVars>>
studyVars == <<currentIndex, isFlipped, correctAnswers, incorrectAnswers>>
pageVars  == <<studyVars, route, settingsPage, settingsRows>>
dbVars    == <<settingsKey, sessions, sessionCards, nextId, clock, profileName, saved,
               other, calls, pageVars>>
vars      == <<variant, genVars, chainVars, hostVars, dbVars, gen>>

NoClosure == [topic |-> <<>>, difficulty |-> "intermediate", key |-> <<>>]

Toast(kind, e) == [kind |-> kind, msg |-> e.msg, status |-> e.status, detail |-> e.detail]

ErrorToast(e) == Toast("error", e)

SuccessToast == Toast("success", Err(MsgSuccess, NoStatus, ""))

NoGen ==
  [run |-> FALSE, topic |-> <<>>, difficulty |-> "intermediate", key |-> <<>>,
   fetches |-> 0,
   sessionInserts |-> 0, cardInserts |-> 0, callbacks |-> 0,
   delivered |-> <<>>, toasts |-> <<>>, resp |-> NoResponse,
   saveError |-> "none", done |-> FALSE]

\* gen describes a finished call until the user's next action.
Forget == gen' = IF gen.done THEN NoGen ELSE gen

\* ------------------------------------------------------------ what is shown
OnDashboard == variant # "openai"

\* Dashboard: if (showStudyMode && flashcards.length > 0); Index: the
\* 'generate' test comes first.
StudyShown ==
  IF OnDashboard THEN ~loading /\ showStudyMode /\ flashcards # <<>>
  ELSE currentView = "study" /\ flashcards # <<>>

GeneratorShown ==
  IF OnDashboard THEN ~loading /\ ~StudyShown /\ showGenerator /\ hasGeminiKey
  ELSE currentView = "generate"

\* Dashboard with history: if (showHistory), tested after the generator.
HistoryShown ==
  OnDashboard /\ ~loading /\ ~StudyShown /\ ~GeneratorShown /\ showHistory

HomeShown ==
  ~(OnDashboard /\ loading) /\ ~StudyShown /\ ~GeneratorShown /\ ~HistoryShown

\* The generator keeps its state while it stays rendered and starts from its
\* useState defaults (and, on the Dashboard, a key fetch) when it is mounted.
GeneratorLifecycle(busy) ==
  IF GeneratorShown /\ GeneratorShown'
  THEN /\ UNCHANGED <<topic, difficulty, apiKey, keyFetch>>
       /\ isGenerating' = busy
  ELSE /\ topic' = <<>>
       /\ difficulty' = "intermediate"
       /\ apiKey' = <<>>
       /\ isGenerating' = FALSE
       /\ keyFetch' = IF GeneratorShown' /\ OnDashboard THEN "pending" ELSE "none"

\* A storage request of SessionHistory: op is "fetch", "load" or "delete";
\* seen is the `sessions` state the calling closure holds; orphan: the instance
\* that issued it has been unmounted; reply is NoReply until storage answers.
NoReply == [state |-> "pending", ok |-> FALSE, rows |-> <<>>]

Reply(ok, rows) == [state |-> "replied", ok |-> ok, rows |-> rows]

\* A request in flight: `seen` is the list the handler closed over, `stored`
\* records whether the save of session sid had completed when it was issued.
Request(op, sid, seen) ==
  [op |-> op, sid |-> sid, seen |-> seen, orphan |-> FALSE, reply |-> NoReply,
   stored |-> \E i \in 1..Len(saved) : saved[i].sid = sid]

Orphaned(reqs) == [i \in 1..Len(reqs) |-> [reqs[i] EXCEPT !.orphan = TRUE]]

\* SessionHistory starts from its useState defaults and runs fetchSessions
\* when it is mounted; the requests of an unmounted instance stay in flight.
HistoryLifecycleOn(reqs, list, busy) ==
  IF HistoryShown' /\ ~HistoryShown
  THEN /\ Len(reqs) < MaxRequests
       /\ histSessions' = <<>>
       /\ histLoading' = TRUE
       /\ histReqs' = Append(reqs, Request("fetch", 0, <<>>))
  ELSE IF HistoryShown /\ ~HistoryShown'
  THEN /\ histSessions' = <<>>
       /\ histLoading' = TRUE
       /\ histReqs' = Orphaned(reqs)
  ELSE /\ histSessions' = list
       /\ histLoading' = busy
       /\ histReqs' = reqs

HistoryLifecycle == HistoryLifecycleOn(histReqs, histSessions, histLoading)

NoLoad == [sid |-> 0, cards |-> <<>>, stored |-> FALSE]

NoHist == [deletedOk |-> {}, lastLoad |-> NoLoad, fetched |-> {}]

\* useState defaults of StudyMode.
StudyInit ==
  /\ currentIndex = 0 /\ isFlipped = FALSE
  /\ correctAnswers = 0 /\ incorrectAnswers = 0

\* useState defaults of the Settings page; `upsert` is the key of the request
\* in flight, `sent` the key of the last request, `toast` and `code` what the
\* last handleSaveSettings showed and why, `redirect` the pending
\* setTimeout(() => navigate('/dashboard')).
NoSettingsPage ==
  [gemini_api_key |-> <<>>, saving |-> FALSE, upsert |-> Absent, sent |-> <<>>,
   toast |-> "none", code |-> "none", redirect |-> FALSE]

\* The application's pages are shown, not /settings; the signup trigger has
\* created the user's user_settings row.
PagesInit ==
  /\ StudyInit
  /\ route = (IF variant = "openai" THEN "/" ELSE "/dashboard")
  /\ settingsPage = NoSettingsPage
  /\ settingsRows = 1

NoOther == [saw |-> {}, wrote |-> "none", made |-> 0]

Init ==
  /\ variant \in Variants
  /\ showHistory = FALSE /\ histSessions = <<>> /\ histLoading = TRUE
  /\ histReqs = <<>> /\ hist = NoHist
  /\ profileName = "Alice" /\ saved = <<>> /\ other = NoOther /\ calls = <<>>
  /\ PagesInit
  /\ topic = <<>> /\ difficulty = "intermediate" /\ apiKey = <<>>
  /\ isGenerating = FALSE /\ keyFetch = "none"
  /\ pc = "idle" /\ closure = NoClosure /\ net = NoResponse
  /\ chainCards = <<>> /\ chainSession = 0
  /\ hasGeminiKey = FALSE /\ loading = (variant # "openai")
  /\ showGenerator = FALSE /\ showStudyMode = FALSE
  /\ flashcards = <<>> /\ currentView = "home"
  /\ settingsKey \in (IF variant = "openai" THEN {<<>>} ELSE Keys)
  /\ sessions = <<>> /\ sessionCards = <<>> /\ nextId = 1 /\ clock = 1
  /\ gen = NoGen

\* ------------------------------------------------------------ host pages
\* Dashboard.checkGeminiApiKey, run by the mount effect.
checkGeminiApiKey ==
  /\ OnDashboard /\ loading /\ route # "/settings"
  /\ \E ok \in BOOLEAN :
       hasGeminiKey' = IF ok THEN settingsKey # <<>> ELSE hasGeminiKey
  /\ loading' = FALSE
  /\ UNCHANGED <<showGenerator, showStudyMode, flashcards, currentView>>
  /\ UNCHANGED <<variant, chainVars, dbVars>>
  /\ Forget
  /\ GeneratorLifecycle(isGenerating)
  /\ UNCHANGED <<showHistory, hist>>
  /\ HistoryLifecycle

\* Mutant: leaving the generator aborts the call in flight.
handleBackFromGenerator_Cancels ==
  /\ OnDashboard /\ GeneratorShown
  /\ showGenerator' = FALSE
  /\ pc' = "idle" /\ closure' = NoClosure /\ net' = NoResponse
  /\ chainCards' = <<>> /\ chainSession' = 0
  /\ UNCHANGED <<hasGeminiKey, loading, showStudyMode, flashcards, currentView>>
  /\ UNCHANGED <<variant, dbVars>>
  /\ Forget
  /\ GeneratorLifecycle(isGenerating)
  /\ UNCHANGED <<showHistory, hist>>
  /\ HistoryLifecycle

\* Dashboard: onClick={() => setShowGenerator(true)}, inside the branch that
\* is rendered when hasGeminiKey.
DashboardOpenGenerator ==
  /\ OnDashboard /\ HomeShown /\ hasGeminiKey
  /\ showGenerator' = TRUE
  /\ UNCHANGED <<hasGeminiKey, loading, showStudyMode, flashcards, currentView>>
  /\ UNCHANGED <<variant, chainVars, dbVars>>
  /\ Forget
  /\ GeneratorLifecycle(isGenerating)
  /\ UNCHANGED <<showHistory, hist>>
  /\ HistoryLifecycle

handleBackFromGenerator ==
  /\ OnDashboard /\ GeneratorShown
  /\ showGenerator' = FALSE
  /\ UNCHANGED <<hasGeminiKey, loading, showStudyMode, flashcards, currentView>>
  /\ UNCHANGED <<variant, chainVars, dbVars>>
  /\ Forget
  /\ GeneratorLifecycle(isGenerating)
  /\ UNCHANGED <<showHistory, hist>>
  /\ HistoryLifecycle

handleBackFromStudyMode ==
  /\ OnDashboard /\ StudyShown
  /\ showStudyMode' = FALSE
  /\ flashcards' = <<>>
  /\ UNCHANGED <<hasGeminiKey, loading, showGenerator, currentView>>
  /\ UNCHANGED <<variant, chainVars, dbVars>>
  /\ Forget
  /\ GeneratorLifecycle(isGenerating)
  /\ UNCHANGED <<showHistory, hist>>
  /\ HistoryLifecycle

\* Index: onClick={() => setCurrentView('generate')}
IndexOpenGenerator ==
  /\ ~OnDashboard /\ HomeShown
  /\ currentView' = "generate"
  /\ UNCHANGED <<hasGeminiKey, loading, showGenerator, showStudyMode, flashcards>>
  /\ UNCHANGED <<variant, chainVars, dbVars>>
  /\ Forget
  /\ GeneratorLifecycle(isGenerating)
  /\ UNCHANGED <<showHistory, hist>>
  /\ HistoryLifecycle

\* Index: onBack={() => setCurrentView('home')} of the generator and of the
\* study view.
IndexBack ==
  /\ ~OnDashboard /\ (GeneratorShown \/ StudyShown)
  /\ currentView' = "home"
  /\ UNCHANGED <<hasGeminiKey, loading, showGenerator, showStudyMode, flashcards>>
  /\ UNCHANGED <<variant, chainVars, dbVars>>
  /\ Forget
  /\ GeneratorLifecycle(isGenerating)
  /\ UNCHANGED <<showHistory, hist>>
  /\ HistoryLifecycle

\* handleFlashcardsGenerated (Dashboard) / handleGeneratedFlashcards (Index)
OnFlashcardsGenerated(cs) ==
  /\ flashcards' = cs
  /\ IF OnDashboard
     THEN showGenerator' = FALSE /\ showStudyMode' = TRUE /\ UNCHANGED currentView
     ELSE currentView' = "study" /\ UNCHANGED <<showGenerator, showStudyMode>>
  /\ UNCHANGED <<hasGeminiKey, loading, showHistory>>

\* ------------------------------------------------------------ generator form
\* onChange={(e) => setTopic(e.target.value)}
setTopic(t) ==
  /\ GeneratorShown
  /\ t # topic
  /\ topic' = t
  /\ UNCHANGED <<variant, difficulty, apiKey, isGenerating, keyFetch,
                 chainVars, hostVars, dbVars>>
  /\ Forget

\* <Select value={difficulty} onValueChange={setDifficulty}>
setDifficulty(d) ==
  /\ GeneratorShown
  /\ d # difficulty
  /\ difficulty' = d
  /\ UNCHANGED <<variant, topic, apiKey, isGenerating, keyFetch,
                 chainVars, hostVars, dbVars>>
  /\ Forget

\* The key field of the "openai" version.
setApiKey(k) ==
  /\ variant = "openai" /\ GeneratorShown
  /\ k # apiKey
  /\ apiKey' = k
  /\ UNCHANGED <<variant, topic, difficulty, isGenerating, keyFetch,
                 chainVars, hostVars, dbVars>>
  /\ Forget

\* fetchGeminiApiKey of the Gemini versions settles: setGeminiApiKey(
\* data.gemini_api_key || ''), or the error is only logged.
fetchGeminiApiKey ==
  /\ keyFetch = "pending"
  /\ \E ok \in BOOLEAN : apiKey' = IF ok THEN settingsKey ELSE apiKey
  /\ keyFetch' = "none"
  /\ UNCHANGED <<variant, topic, difficulty, isGenerating,
                 chainVars, hostVars, dbVars>>
  /\ Forget

\* ------------------------------------------------------------ generateFlashcards
\* Mutant: the key check left out.
KeyMissing_Unchecked(v, k) == FALSE

\* if (!apiKey.trim()) in the "openai" version, if (!geminiApiKey) in the others.
KeyMissing(v, k) == IF v = "openai" THEN Trim(k) = <<>> ELSE k = <<>>

\* disabled={isGenerating || !topic.trim() [|| !apiKey.trim()]}
GenerateDisabled ==
  \/ isGenerating
  \/ Trim(topic) = <<>>
  \/ (variant = "openai" /\ Trim(apiKey) = <<>>)

Started ==
  [NoGen EXCEPT !.run = TRUE, !.topic = topic, !.difficulty = difficulty,
                !.key = apiKey]

\* The body of generateFlashcards up to its first await.
generateFlashcards ==
  IF Trim(topic) = <<>>
  THEN /\ gen' = [Started EXCEPT !.toasts = <<ErrorToast(Err(MsgTopic, NoStatus, ""))>>,
                                  !.done = TRUE]
       /\ UNCHANGED <<variant, genVars, chainVars, hostVars, dbVars>>
  ELSE IF KeyMissing(variant, apiKey)
  THEN /\ gen' = [Started EXCEPT !.toasts = <<ErrorToast(Err(MsgKey, NoStatus, ""))>>,
                                  !.done = TRUE]
       /\ UNCHANGED <<variant, genVars, chainVars, hostVars, dbVars>>
  ELSE /\ isGenerating' = TRUE
       /\ closure' = [topic |-> topic, difficulty |-> difficulty, key |-> apiKey]
       /\ pc' = "awaitFetch"
       /\ gen' = [Started EXCEPT !.fetches = 1]
       /\ UNCHANGED <<variant, topic, difficulty, apiKey, keyFetch, net,
                      chainCards, chainSession, hostVars, dbVars>>

\* The model follows one call at a time (pc = "idle") and stops persisting
\* versions once MaxSessions rows exist.
CanStart ==
  /\ GeneratorShown
  /\ pc = "idle"
  /\ Len(sessions) < MaxSessions

\* The Generate button.
ClickGenerate ==
  /\ CanStart
  /\ ~GenerateDisabled
  /\ generateFlashcards

\* generateFlashcards called whatever the button's disabled attribute says.
CallGenerate ==
  /\ CanStart
  /\ generateFlashcards

\* The provider answers, or the transport gives up.
ProviderResponds(responses) ==
  /\ pc = "awaitFetch"
  /\ net = NoResponse
  /\ net' \in responses
  /\ UNCHANGED <<variant, genVars, pc, closure, chainCards, chainSession,
                 hostVars, dbVars, gen>>

\* Mutant: the catch block without the finally that clears the flag.
Fail_NoFinally(e, g) ==
  /\ gen' = [g EXCEPT !.toasts = Append(g.toasts, ErrorToast(e)), !.done = TRUE]
  /\ pc' = "idle"
  /\ closure' = NoClosure
  /\ chainCards' = <<>>
  /\ chainSession' = 0
  /\ UNCHANGED hostVars
  /\ GeneratorLifecycle(isGenerating)

\* Mutant: a failed request is sent once more before the error is shown.
Fail_Retry(e, g) ==
  IF e.msg = MsgRequest /\ g.fetches < 2
  THEN /\ gen' = [g EXCEPT !.fetches = g.fetches + 1]
       /\ pc' = "awaitFetch"
       /\ UNCHANGED <<closure, chainCards, chainSession>>
       /\ UNCHANGED hostVars
       /\ GeneratorLifecycle(isGenerating)
  ELSE /\ gen' = [g EXCEPT !.toasts = Append(g.toasts, ErrorToast(e)), !.done = TRUE]
       /\ pc' = "idle"
       /\ closure' = NoClosure
       /\ chainCards' = <<>>
       /\ chainSession' = 0
       /\ UNCHANGED hostVars
       /\ GeneratorLifecycle(FALSE)

\* catch (error) { toast.error(error.message) } finally { setIsGenerating(false) }
Fail(e, g) ==
  /\ gen' = [g EXCEPT !.toasts = Append(g.toasts, ErrorToast(e)), !.done = TRUE]
  /\ pc' = "idle"
  /\ closure' = NoClosure
  /\ chainCards' = <<>>
  /\ chainSession' = 0
  /\ UNCHANGED hostVars
  /\ GeneratorLifecycle(FALSE)

\* onFlashcardsGenerated(cards); toast.success(...); finally.
Deliver(cs, g) ==
  /\ gen' = [g EXCEPT !.callbacks = g.callbacks + 1, !.delivered = cs,
                      !.toasts = Append(g.toasts, SuccessToast), !.done = TRUE]
  /\ pc' = "idle"
  /\ closure' = NoClosure
  /\ chainCards' = <<>>
  /\ chainSession' = 0
  /\ OnFlashcardsGenerated(cs)
  /\ GeneratorLifecycle(FALSE)
  /\ UNCHANGED hist
  /\ HistoryLifecycle

\* generateFlashcards resumes after `await fetch`: status check, body, parse,
\* shape check; then the session insert is issued (persisting versions) or
\* the cards are handed over.
ResumeAfterFetch ==
  /\ pc = "awaitFetch"
  /\ net # NoResponse
  /\ UNCHANGED variant
  /\ net' = NoResponse
  /\ LET out == FetchOutcome(variant, net)
         g   == [gen EXCEPT !.resp = net]
     IN  IF out.thrown
         THEN Fail(out.err, g) /\ UNCHANGED dbVars
         ELSE IF Persists(variant)
         THEN /\ pc' = "awaitSessionInsert"
              /\ chainCards' = out.cards
              /\ gen' = [g EXCEPT !.sessionInserts = g.sessionInserts + 1]
              /\ UNCHANGED <<genVars, closure, chainSession, hostVars, dbVars>>
         ELSE Deliver(out.cards, g) /\ UNCHANGED dbVars

\* Mutant: saveFlashcardSession lets the storage error escape.
SaveFailed_Rethrow(cs, g) ==
  /\ Fail(Err(MsgSaveFailed, NoStatus, ""), g)

\* saveFlashcardSession's catch block: the warning toast; the function then
\* returns normally and generateFlashcards goes on to hand the cards over.
SaveFailed(cs, g) ==
  Deliver(cs, [g EXCEPT !.toasts =
                 Append(g.toasts, ErrorToast(Err(MsgSaveFailed, NoStatus, "")))])

\* Mutant: the row is built from the form as it is when the insert runs.
SessionInsert_Live ==
  SessionRow(nextId, User, topic, difficulty, Len(chainCards), clock)

\* insert({user_id: user?.id, topic: sessionTopic, difficulty,
\* flashcard_count: flashcards.length}); id and created_at are the defaults.
SessionInsert ==
  SessionRow(nextId, User, closure.topic, closure.difficulty, Len(chainCards), clock)

\* saveFlashcardSession resumes after the flashcard_sessions insert.
SessionInsertReturns ==
  /\ pc = "awaitSessionInsert"
  /\ UNCHANGED variant
  /\ \E ok \in BOOLEAN :
       IF ok /\ SessionInsertAllowed(User, SessionInsert)
       THEN /\ sessions' = Append(sessions, SessionInsert)
            /\ chainSession' = nextId
            /\ nextId' = nextId + 1
            /\ clock' = clock + 1
            /\ pc' = "awaitCardsInsert"
            /\ gen' = [gen EXCEPT !.cardInserts = gen.cardInserts + 1]
            /\ UNCHANGED <<genVars, closure, net, chainCards, hostVars,
                           settingsKey, sessionCards, profileName, saved, other, calls,
                 pageVars>>
       ELSE /\ SaveFailed(chainCards, [gen EXCEPT !.saveError = "session"])
            /\ UNCHANGED <<net, dbVars>>

\* saveFlashcardSession resumes after the session_flashcards bulk insert.
CardsInsertReturns ==
  /\ pc = "awaitCardsInsert"
  /\ UNCHANGED variant
  /\ LET rows == FlashcardInserts(variant, chainSession, chainCards)
     IN  \E ok \in BOOLEAN :
           IF /\ ok
              /\ \A i \in 1..Len(rows) : ~ViolatesNotNull(rows[i])
              /\ rows # <<>> => CardInsertAllowed(User, chainSession, sessions)
           THEN /\ sessionCards' = sessionCards \o
                     [i \in 1..Len(rows) |-> StoredCard(nextId + i - 1, rows[i], clock)]
                /\ nextId' = nextId + Len(rows)
                /\ clock' = clock + 1
                /\ saved' = Append(saved, [sid |-> chainSession, cards |-> chainCards])
                /\ Deliver(chainCards, gen)
                /\ UNCHANGED <<net, settingsKey, sessions, profileName, other, calls,
                 pageVars>>
           ELSE /\ SaveFailed(chainCards, [gen EXCEPT !.saveError = "cards"])
                /\ UNCHANGED <<net, dbVars>>

\* ------------------------------------------------------------ SessionHistory
\* Dashboard: onClick={() => setShowHistory(true)}, in the hasGeminiKey branch.
DashboardOpenHistory ==
  /\ OnDashboard /\ HomeShown /\ hasGeminiKey
  /\ showHistory' = TRUE
  /\ UNCHANGED <<hasGeminiKey, loading, showGenerator, showStudyMode, flashcards,
                 currentView>>
  /\ UNCHANGED <<variant, chainVars, dbVars, hist>>
  /\ Forget
  /\ GeneratorLifecycle(isGenerating)
  /\ HistoryLifecycle

handleBackFromHistory ==
  /\ HistoryShown
  /\ showHistory' = FALSE
  /\ UNCHANGED <<hasGeminiKey, loading, showGenerator, showStudyMode, flashcards,
                 currentView>>
  /\ UNCHANGED <<variant, chainVars, dbVars, hist>>
  /\ Forget
  /\ GeneratorLifecycle(isGenerating)
  /\ HistoryLifecycle

\* The buttons of a listed session are rendered once loading is false.
Listed(sid) ==
  /\ HistoryShown /\ ~histLoading
  /\ \E i \in 1..Len(histSessions) : histSessions[i].id = sid

\* loadSession(session.id) up to its await.
loadSession(sid) ==
  /\ Listed(sid)
  /\ Len(histReqs) < MaxRequests
  /\ histReqs' = Append(histReqs, Request("load", sid, histSessions))
  /\ UNCHANGED <<variant, genVars, chainVars, dbVars>>
  /\ UNCHANGED <<hasGeminiKey, loading, showGenerator, showStudyMode, flashcards,
                 currentView, showHistory, histSessions, histLoading, hist>>
  /\ Forget

\* deleteSession(session.id) up to its await; the closure keeps `sessions`.
deleteSession(sid) ==
  /\ Listed(sid)
  /\ Len(histReqs) < MaxRequests
  /\ histReqs' = Append(histReqs, Request("delete", sid, histSessions))
  /\ UNCHANGED <<variant, genVars, chainVars, dbVars>>
  /\ UNCHANGED <<hasGeminiKey, loading, showGenerator, showStudyMode, flashcards,
                 currentView, showHistory, histSessions, histLoading, hist>>
  /\ Forget

Answered(reqs, i, reply) == [reqs EXCEPT ![i].reply = reply]

\* Storage executes request i of the user, or the request fails.
StorageServes(i) ==
  /\ i \in 1..Len(histReqs)
  /\ histReqs[i].reply = NoReply
  /\ LET r == histReqs[i]
     IN  \E ok \in BOOLEAN :
           IF ~ok
           THEN /\ histReqs' = Answered(histReqs, i, Reply(FALSE, <<>>))
                /\ UNCHANGED <<sessions, sessionCards>>
           ELSE IF r.op = "fetch"
           THEN /\ \E rows \in SelectSessions(User, User, sessions) :
                     histReqs' = Answered(histReqs, i, Reply(TRUE, rows))
                /\ UNCHANGED <<sessions, sessionCards>>
           ELSE IF r.op = "load"
           THEN /\ \E rows \in SelectCards(User, r.sid, sessionCards, sessions) :
                     histReqs' = Answered(histReqs, i, Reply(TRUE, rows))
                /\ UNCHANGED <<sessions, sessionCards>>
           ELSE /\ sessions' = WithoutSessions(sessions, DeletedIds(User, r.sid, sessions))
                /\ sessionCards' =
                     CascadeCards(sessionCards, DeletedIds(User, r.sid, sessions))
                /\ histReqs' = Answered(histReqs, i, Reply(TRUE, <<>>))
  /\ UNCHANGED <<variant, genVars, chainVars, gen>>
  /\ UNCHANGED <<hasGeminiKey, loading, showGenerator, showStudyMode, flashcards,
                 currentView, showHistory, histSessions, histLoading, hist>>
  /\ UNCHANGED <<settingsKey, nextId, clock, profileName, saved, other, calls,
                 pageVars>>

Without(reqs, i) == SubSeq(reqs, 1, i - 1) \o SubSeq(reqs, i + 1, Len(reqs))

Replied(i, op) ==
  /\ i \in 1..Len(histReqs)
  /\ histReqs[i].op = op
  /\ histReqs[i].reply # NoReply

\* fetchSessions after its await: setSessions(data || []) or the error
\* toast; finally setLoading(false).
fetchSessionsReturns(i) ==
  /\ Replied(i, "fetch")
  /\ histReqs' = Without(histReqs, i)
  /\ IF histReqs[i].orphan
     THEN UNCHANGED <<histSessions, histLoading, hist>>
     ELSE /\ histSessions' = IF histReqs[i].reply.ok THEN histReqs[i].reply.rows
                             ELSE histSessions
          /\ histLoading' = FALSE
          /\ hist' = [hist EXCEPT !.fetched =
                         {histSessions'[k].id : k \in 1..Len(histSessions')}]
  /\ UNCHANGED <<variant, genVars, chainVars, dbVars, gen>>
  /\ UNCHANGED <<hasGeminiKey, loading, showGenerator, showStudyMode, flashcards,
                 currentView, showHistory>>

\* deleteSession after its await: setSessions(sessions.filter(...)).
deleteSessionReturns(i) ==
  /\ Replied(i, "delete")
  /\ histReqs' = Without(histReqs, i)
  /\ LET r == histReqs[i]
     IN  IF r.reply.ok
         THEN /\ histSessions' =
                   IF r.orphan THEN histSessions
                   ELSE SelectSeq(r.seen, LAMBDA q : q.id # r.sid)
              /\ hist' = [hist EXCEPT !.deletedOk = @ \cup {r.sid}]
         ELSE UNCHANGED <<histSessions, hist>>
  /\ UNCHANGED <<variant, genVars, chainVars, dbVars, gen>>
  /\ UNCHANGED <<hasGeminiKey, loading, showGenerator, showStudyMode, flashcards,
                 currentView, showHistory, histLoading>>

\* loadSession after its await: map the rows, onLoadSession(flashcards)
\* (Dashboard.handleLoadSession), or the error toast.
loadSessionReturns(i) ==
  /\ Replied(i, "load")
  /\ UNCHANGED <<variant, chainVars, dbVars, gen>>
  /\ LET r == histReqs[i]
     IN  IF r.reply.ok
         THEN /\ flashcards' = LoadedCards(r.reply.rows)
              /\ showHistory' = FALSE
              /\ showStudyMode' = TRUE
              /\ UNCHANGED <<hasGeminiKey, loading, showGenerator, currentView>>
              /\ hist' = [hist EXCEPT !.lastLoad =
                             [sid |-> r.sid, cards |-> LoadedCards(r.reply.rows),
                              stored |-> r.stored]]
              /\ GeneratorLifecycle(isGenerating)
              /\ HistoryLifecycleOn(Without(histReqs, i), histSessions, histLoading)
         ELSE /\ histReqs' = Without(histReqs, i)
              /\ UNCHANGED <<genVars, hasGeminiKey, loading, showGenerator,
                             showStudyMode, flashcards, currentView, showHistory,
                             histSessions, histLoading, hist>>

\* ------------------------------------------------------------ the other user
\* Requests the second account sends to the same tables with its own token.
\* other.saw: the rows its latest read returned, with their owner;
\* other.wrote: how its latest write ended; other.made: rows it created.
OwnerOf(sid, tbl) == (CHOOSE r \in Range(tbl) : r.id = sid).user_id

Seen(tbl, row, owner) == [tbl |-> tbl, row |-> row, owner |-> owner]

\* select * from flashcard_sessions; select * from session_flashcards
OtherReads ==
  /\ other' = [other EXCEPT !.saw =
       {Seen("flashcard_sessions", r, r.user_id) :
          r \in {q \in Range(sessions) : SessionVisible(Other, q)}}
       \cup {Seen("session_flashcards", c, OwnerOf(c.session_id, sessions)) :
          c \in {q \in Range(sessionCards) : CardVisible(Other, q, sessions)}}]
  /\ UNCHANGED <<variant, genVars, chainVars, hostVars, gen>>
  /\ UNCHANGED <<settingsKey, sessions, sessionCards, nextId, clock, profileName, saved, calls,
                 pageVars>>

Wrote(done) == IF done THEN "done" ELSE "refused"

\* insert into flashcard_sessions with user_id = owner
OtherInsertsSession(owner) ==
  /\ other.made < MaxOtherRows
  /\ LET row == SessionRow(nextId, owner, <<"a">>, "intermediate", 1, clock)
         done == SessionInsertAllowed(Other, row)
     IN  /\ sessions' = IF done THEN Append(sessions, row) ELSE sessions
         /\ nextId' = IF done THEN nextId + 1 ELSE nextId
         /\ clock' = IF done THEN clock + 1 ELSE clock
         /\ other' = [other EXCEPT !.wrote = Wrote(done),
                                    !.made = IF done THEN @ + 1 ELSE @]
  /\ UNCHANGED <<variant, genVars, chainVars, hostVars, gen>>
  /\ UNCHANGED <<settingsKey, sessionCards, profileName, saved, calls,
                 pageVars>>

OtherCard(sid) ==
  [session_id |-> sid, german_word |-> "x", english_meaning |-> "y",
   example_sentence |-> "z", difficulty |-> "easy"]

\* insert into session_flashcards with session_id = sid
OtherInsertsCard(sid) ==
  /\ other.made < MaxOtherRows + 1
  /\ LET done == CardInsertAllowed(Other, sid, sessions)
     IN  /\ sessionCards' = IF done
                            THEN Append(sessionCards, StoredCard(nextId, OtherCard(sid), clock))
                            ELSE sessionCards
         /\ nextId' = IF done THEN nextId + 1 ELSE nextId
         /\ clock' = IF done THEN clock + 1 ELSE clock
         /\ other' = [other EXCEPT !.wrote = Wrote(done),
                                    !.made = IF done THEN @ + 1 ELSE @]
  /\ UNCHANGED <<variant, genVars, chainVars, hostVars, gen>>
  /\ UNCHANGED <<settingsKey, sessions, profileName, saved, calls,
                 pageVars>>

\* delete from flashcard_sessions where id = sid
OtherDeletesSession(sid) ==
  /\ LET gone == DeletedIds(Other, sid, sessions)
     IN  /\ sessions' = WithoutSessions(sessions, gone)
         /\ sessionCards' = CascadeCards(sessionCards, gone)
         /\ other' = [other EXCEPT !.wrote = Wrote(gone # {})]
  /\ UNCHANGED <<variant, genVars, chainVars, hostVars, gen>>
  /\ UNCHANGED <<settingsKey, nextId, clock, profileName, saved, calls,
                 pageVars>>

\* delete from session_flashcards where session_id = sid
OtherDeletesCards(sid) ==
  /\ LET kept == SelectSeq(sessionCards, LAMBDA c :
                    ~(c.session_id = sid /\ CardDeleteAllowed(Other, c, sessions)))
     IN  /\ sessionCards' = kept
         /\ other' = [other EXCEPT !.wrote = Wrote(kept # sessionCards)]
  /\ UNCHANGED <<variant, genVars, chainVars, hostVars, gen>>
  /\ UNCHANGED <<settingsKey, sessions, nextId, clock, profileName, saved, calls,
                 pageVars>>

\* update ... set topic / difficulty on the rows of session sid
OtherUpdatesSession(sid) ==
  /\ LET hit(r) == r.id = sid /\ RowUpdateAllowed(Other, r.user_id)
         hitCard(c) == c.session_id = sid
                         /\ RowUpdateAllowed(Other, OwnerOf(c.session_id, sessions))
     IN  /\ sessions' = [i \in 1..Len(sessions) |->
                           IF hit(sessions[i])
                           THEN [sessions[i] EXCEPT !.topic = <<"x">>]
                           ELSE sessions[i]]
         /\ sessionCards' = [i \in 1..Len(sessionCards) |->
                               IF hitCard(sessionCards[i])
                               THEN [sessionCards[i] EXCEPT !.difficulty = "x"]
                               ELSE sessionCards[i]]
         /\ other' = [other EXCEPT !.wrote =
                        Wrote(\E r \in Range(sessions) : hit(r))]
  /\ UNCHANGED <<variant, genVars, chainVars, hostVars, gen>>
  /\ UNCHANGED <<settingsKey, nextId, clock, profileName, saved, calls,
                 pageVars>>

\* update / delete on the user's profiles row and user_settings row
OtherWritesAccount(op) ==
  /\ profileName' = IF ProfileWritable(Other, User, op) THEN "x" ELSE profileName
  /\ settingsKey' = IF SettingsWritable(Other, User) THEN <<>> ELSE settingsKey
  /\ other' = [other EXCEPT !.wrote =
                 Wrote(ProfileWritable(Other, User, op) \/ SettingsWritable(Other, User))]
  /\ UNCHANGED <<variant, genVars, chainVars, hostVars, gen>>
  /\ UNCHANGED <<sessions, sessionCards, nextId, clock, saved, calls,
                 pageVars>>

SessionIds == {sessions[i].id : i \in 1..Len(sessions)}

OtherActs ==
  \/ OtherReads
  \/ \E owner \in Users : OtherInsertsSession(owner)
  \/ \E sid \in SessionIds : OtherInsertsCard(sid)
  \/ \E sid \in SessionIds : OtherDeletesSession(sid)
  \/ \E sid \in SessionIds : OtherDeletesCards(sid)
  \/ \E sid \in SessionIds : OtherUpdatesSession(sid)
  \/ \E op \in {"update", "delete"} : OtherWritesAccount(op)

\* ------------------------------------------------------------ overlapping calls
\* Each invocation of the async generateFlashcards has its own continuation.
\* pc, closure, net, chainCards and chainSession belong to the call the model
\* follows; the others wait in `calls`.
ChainOf == [pc |-> pc, closure |-> closure, net |-> net, chainCards |-> chainCards,
            chainSession |-> chainSession]

FreshCall ==
  [pc |-> "awaitFetch",
   closure |-> [topic |-> topic, difficulty |-> difficulty, key |-> apiKey],
   net |-> NoResponse, chainCards |-> <<>>, chainSession |-> 0]

\* setIsGenerating(true) has been called but the view has not rendered it:
\* every call in flight is still at its fetch, unanswered.
BeforeRender ==
  /\ isGenerating
  /\ pc = "awaitFetch" /\ net = NoResponse
  /\ \A i \in 1..Len(calls) : calls[i].pc = "awaitFetch" /\ calls[i].net = NoResponse

\* A second submit handled before the view re-renders: the button's
\* `disabled` is still false, and generateFlashcards itself tests only the
\* topic (and the key); it runs from the same render's closure.
SubmitBeforeRender ==
  /\ GeneratorShown
  /\ BeforeRender
  /\ Len(calls) < MaxCalls
  /\ Trim(topic) # <<>> /\ ~KeyMissing(variant, apiKey)
  /\ isGenerating' = TRUE
  /\ calls' = Append(calls, FreshCall)
  /\ gen' = [gen EXCEPT !.fetches = @ + 1]
  /\ UNCHANGED <<variant, topic, difficulty, apiKey, keyFetch, chainVars, hostVars>>
  /\ UNCHANGED <<settingsKey, sessions, sessionCards, nextId, clock, profileName, saved,
                 other, pageVars>>

\* The model turns to another call in flight; a finished call is dropped.
FollowOther(i) ==
  /\ i \in 1..Len(calls)
  /\ calls[i] # ChainOf
  /\ pc' = calls[i].pc /\ closure' = calls[i].closure /\ net' = calls[i].net
  /\ chainCards' = calls[i].chainCards /\ chainSession' = calls[i].chainSession
  /\ calls' = IF pc = "idle" THEN Without(calls, i) ELSE [calls EXCEPT ![i] = ChainOf]
  /\ UNCHANGED <<variant, genVars, hostVars, gen>>
  /\ UNCHANGED <<settingsKey, sessions, sessionCards, nextId, clock, profileName, saved,
                 other, pageVars>>

\* ------------------------------------------------------------ Settings page
\* What the Settings page leaves alone besides its own state and the row.
SettingsOnly ==
  /\ route = "/settings"
  /\ UNCHANGED <<variant, genVars, chainVars, hostVars, gen>>
  /\ UNCHANGED <<sessions, sessionCards, nextId, clock, profileName, saved, other, calls,
                 studyVars>>

\* navigate('/settings') from the dashboard: the Dashboard is unmounted and
\* will start from its useState defaults; fetchUserData fills the form.
DashboardOpenSettings ==
  /\ OnDashboard /\ HomeShown /\ route = "/dashboard"
  /\ route' = "/settings"
  /\ settingsPage' = [NoSettingsPage EXCEPT !.gemini_api_key = settingsKey]
  /\ hasGeminiKey' = FALSE /\ loading' = TRUE
  /\ showGenerator' = FALSE /\ showStudyMode' = FALSE /\ showHistory' = FALSE
  /\ flashcards' = <<>>
  /\ UNCHANGED <<variant, genVars, chainVars, currentView, histVars, gen>>
  /\ UNCHANGED <<settingsKey, sessions, sessionCards, nextId, clock, profileName, saved,
                 other, calls, studyVars, settingsRows>>

\* onChange of the key field.
setGeminiApiKey(k) ==
  /\ SettingsOnly
  /\ k # settingsPage.gemini_api_key
  /\ settingsPage' = [settingsPage EXCEPT !.gemini_api_key = k]
  /\ UNCHANGED <<settingsKey, settingsRows, route>>

\* handleSaveSettings up to its await (the button is disabled while saving).
handleSaveSettings ==
  /\ SettingsOnly
  /\ ~settingsPage.saving
  /\ settingsPage' =
       IF Trim(settingsPage.gemini_api_key) = <<>>
       THEN [settingsPage EXCEPT !.toast = "error", !.code = "empty"]
       ELSE [settingsPage EXCEPT !.saving = TRUE,
                                 !.upsert = settingsPage.gemini_api_key,
                                 !.sent = settingsPage.gemini_api_key,
                                 !.toast = "none", !.code = "none"]
  /\ UNCHANGED <<settingsKey, settingsRows, route>>

\* upsert({user_id, gemini_api_key, updated_at}) without onConflict: an
\* INSERT ... ON CONFLICT (id), where id is a fresh default. With no row of
\* the user the row is inserted; with one, UNIQUE(user_id) refuses it (23505).
UpsertSettings(rows) ==
  IF rows = 0 THEN [ok |-> TRUE, code |-> "none"] ELSE [ok |-> FALSE, code |-> "23505"]

\* handleSaveSettings after its await: the toast, the redirect timer, finally.
SaveSettingsReturns ==
  /\ SettingsOnly
  /\ settingsPage.upsert # Absent
  /\ \E reached \in BOOLEAN :
       LET out == IF reached THEN UpsertSettings(settingsRows)
                  ELSE [ok |-> FALSE, code |-> "network"]
       IN  /\ settingsRows' = IF out.ok THEN settingsRows + 1 ELSE settingsRows
           /\ settingsKey' = IF out.ok THEN settingsPage.upsert ELSE settingsKey
           /\ settingsPage' =
                [settingsPage EXCEPT !.saving = FALSE, !.upsert = Absent,
                   !.toast = IF out.ok THEN "success" ELSE "error",
                   !.code = out.code,
                   !.redirect = out.ok \/ settingsPage.redirect]
  /\ UNCHANGED route

\* setTimeout(() => navigate('/dashboard'), 1500) fires, or the back button:
\* the Dashboard mounts with its defaults and runs checkGeminiApiKey.
navigateDashboard ==
  /\ SettingsOnly
  /\ route' = "/dashboard"
  /\ settingsPage' = [settingsPage EXCEPT !.redirect = FALSE, !.saving = FALSE,
                                          !.upsert = Absent]
  /\ UNCHANGED <<settingsKey, settingsRows>>

\* ------------------------------------------------------------ StudyMode
totalCards == Len(flashcards)

\* Mutant: the index moves on without the test against the last card.
handleNext_Unchecked ==
  /\ currentIndex' = currentIndex + 1
  /\ isFlipped' = FALSE

\* handleNext: if (currentIndex < totalCards - 1) { ... }
handleNext ==
  IF currentIndex < totalCards - 1
  THEN currentIndex' = currentIndex + 1 /\ isFlipped' = FALSE
  ELSE UNCHANGED <<currentIndex, isFlipped>>

\* What a StudyMode handler leaves alone besides the component's own state.
StudyOnly ==
  /\ StudyShown
  /\ UNCHANGED <<variant, genVars, chainVars, hostVars, gen>>
  /\ UNCHANGED <<settingsKey, sessions, sessionCards, nextId, clock, profileName, saved,
                 other, calls, route, settingsPage, settingsRows>>

handleFlip ==
  /\ StudyOnly
  /\ isFlipped' = ~isFlipped
  /\ UNCHANGED <<currentIndex, correctAnswers, incorrectAnswers>>

\* The Next button (disabled on the last card) and the handler itself.
StudyNext ==
  /\ StudyOnly
  /\ handleNext
  /\ UNCHANGED <<correctAnswers, incorrectAnswers>>

handlePrevious ==
  /\ StudyOnly
  /\ IF currentIndex > 0
     THEN currentIndex' = currentIndex - 1 /\ isFlipped' = FALSE
     ELSE UNCHANGED <<currentIndex, isFlipped>>
  /\ UNCHANGED <<correctAnswers, incorrectAnswers>>

\* The Correct / Incorrect buttons are on the back of the card.
handleCorrect ==
  /\ StudyOnly
  /\ isFlipped
  /\ correctAnswers + incorrectAnswers < MaxAnswers
  /\ correctAnswers' = correctAnswers + 1
  /\ handleNext
  /\ UNCHANGED incorrectAnswers

handleIncorrect ==
  /\ StudyOnly
  /\ isFlipped
  /\ correctAnswers + incorrectAnswers < MaxAnswers
  /\ incorrectAnswers' = incorrectAnswers + 1
  /\ handleNext
  /\ UNCHANGED correctAnswers

resetStudy ==
  /\ StudyOnly
  /\ currentIndex' = 0
  /\ isFlipped' = FALSE
  /\ correctAnswers' = 0
  /\ incorrectAnswers' = 0

\* ------------------------------------------------------------ specifications
Common ==
  \/ checkGeminiApiKey
  \/ DashboardOpenGenerator
  \/ handleBackFromGenerator
  \/ handleBackFromStudyMode
  \/ IndexOpenGenerator
  \/ IndexBack
  \/ \E t \in Topics : setTopic(t)
  \/ \E d \in Difficulties : setDifficulty(d)
  \/ \E k \in Keys : setApiKey(k)
  \/ fetchGeminiApiKey
  \/ ResumeAfterFetch
  \/ SessionInsertReturns
  \/ CardsInsertReturns

\* The application as the user drives it.
Next ==
  \/ Common
  \/ ClickGenerate
  \/ ProviderResponds(CommonResponses)

Spec == Init /\ [][Next]_vars

\* generateFlashcards called directly as well.
NextCall == Next \/ CallGenerate

SpecCall == Init /\ [][NextCall]_vars

\* One generation from its dispatch to its end, over every response.
InitGen ==
  /\ variant \in Variants
  /\ showHistory = FALSE /\ histSessions = <<>> /\ histLoading = TRUE
  /\ histReqs = <<>> /\ hist = NoHist
  /\ profileName = "Alice" /\ saved = <<>> /\ other = NoOther /\ calls = <<>>
  /\ PagesInit
  /\ topic = <<"a">> /\ difficulty \in Difficulties /\ apiKey = <<"k">>
  /\ isGenerating = TRUE /\ keyFetch = "none"
  /\ pc = "awaitFetch"
  /\ closure = [topic |-> topic, difficulty |-> difficulty, key |-> apiKey]
  /\ net = NoResponse /\ chainCards = <<>> /\ chainSession = 0
  /\ hasGeminiKey = (variant # "openai") /\ loading = FALSE
  /\ showGenerator = (variant # "openai") /\ showStudyMode = FALSE
  /\ flashcards = <<>>
  /\ currentView = (IF variant = "openai" THEN "generate" ELSE "home")
  /\ settingsKey = (IF variant = "openai" THEN <<>> ELSE <<"k">>)
  /\ sessions = <<>> /\ sessionCards = <<>> /\ nextId = 1 /\ clock = 1
  /\ gen = [Started EXCEPT !.fetches = 1]

NextGen ==
  \/ ProviderResponds(AllResponses)
  \/ ResumeAfterFetch
  \/ SessionInsertReturns
  \/ CardsInsertReturns

SpecGen == InitGen /\ [][NextGen]_vars

\* A second German card, for results of two cards.
CardKatze == RawCard(Absent, Absent, Absent, "easy", "Katze", "cat", "Die Katze schläft.")

\* The card lists of the responses that reach saveFlashcardSession.
StoreLists ==
  {<<>>, <<CardFull>>, <<CardFull, CardBogus>>, <<CardFull, CardFull>>,
   <<CardGerman>>, <<CardGerman, CardKatze>>}

StoreResponses ==
  {Response("http", 200, "text", <<Doc(Envelope(cs))>>) : cs \in StoreLists}

ListedIds == {histSessions[i].id : i \in 1..Len(histSessions)}

\* What the user does on the Dashboard around the history view.
HistoryActs ==
  \/ handleBackFromGenerator
  \/ handleBackFromStudyMode
  \/ DashboardOpenHistory
  \/ handleBackFromHistory
  \/ \E sid \in ListedIds : loadSession(sid)
  \/ \E sid \in ListedIds : deleteSession(sid)
  \/ \E i \in 1..Len(histReqs) : StorageServes(i)
  \/ \E i \in 1..Len(histReqs) : fetchSessionsReturns(i)
  \/ \E i \in 1..Len(histReqs) : loadSessionReturns(i)
  \/ \E i \in 1..Len(histReqs) : deleteSessionReturns(i)

\* One generation of a persisting version, from its dispatch, with the user
\* browsing the history meanwhile and afterwards.
InitStore == InitGen /\ variant # "openai"

NextStore ==
  \/ ProviderResponds(StoreResponses)
  \/ ResumeAfterFetch
  \/ SessionInsertReturns
  \/ CardsInsertReturns
  \/ HistoryActs

SpecStore == InitStore /\ [][NextStore]_vars

\* One generation of a persisting version with the second user's requests
\* interleaved.
NextUsers ==
  \/ ProviderResponds(StoreResponses)
  \/ ResumeAfterFetch
  \/ SessionInsertReturns
  \/ CardsInsertReturns
  \/ OtherActs

SpecUsers == InitStore /\ [][NextUsers]_vars

\* A flashcard_sessions table after n saves of empty results, in insertion
\* order: row `theirs` (if any) was saved by the second user, and rows `tie`
\* and tie + 1 (if any) got the same created_at.
HistoryTable(n, theirs, tie) ==
  [i \in 1..n |->
     SessionRow(i, IF i = theirs THEN Other ELSE User, <<"a">>, "intermediate", 0,
                IF tie = 0 \/ i <= tie THEN i ELSE i - 1)]

HistoryTables ==
  {HistoryTable(n, theirs, tie) :
     n \in 0..MaxHistory, theirs \in 0..MaxHistory, tie \in 0..MaxHistory}

\* The Dashboard of a user with a stored key and some saved sessions, opening
\* and leaving the history view.
InitList ==
  /\ variant = "generic"
  /\ showHistory = FALSE /\ histSessions = <<>> /\ histLoading = TRUE
  /\ histReqs = <<>> /\ hist = NoHist
  /\ profileName = "Alice" /\ saved = <<>> /\ other = NoOther /\ calls = <<>>
  /\ PagesInit
  /\ topic = <<>> /\ difficulty = "intermediate" /\ apiKey = <<>>
  /\ isGenerating = FALSE /\ keyFetch = "none"
  /\ pc = "idle" /\ closure = NoClosure /\ net = NoResponse
  /\ chainCards = <<>> /\ chainSession = 0
  /\ hasGeminiKey = TRUE /\ loading = FALSE
  /\ showGenerator = FALSE /\ showStudyMode = FALSE
  /\ flashcards = <<>> /\ currentView = "home"
  /\ settingsKey = <<"k">>
  /\ sessions \in HistoryTables /\ sessionCards = <<>>
  /\ nextId = Len(sessions) + 1 /\ clock = Len(sessions) + 1
  /\ gen = NoGen

NextList ==
  \/ DashboardOpenHistory
  \/ handleBackFromHistory
  \/ \E i \in 1..Len(histReqs) : StorageServes(i)
  \/ \E i \in 1..Len(histReqs) : fetchSessionsReturns(i)

SpecList == InitList /\ [][NextList]_vars

\* The generator with its form filled in, and submits that may come faster
\* than the view renders.
InitBusy ==
  /\ variant \in Variants
  /\ showHistory = FALSE /\ histSessions = <<>> /\ histLoading = TRUE
  /\ histReqs = <<>> /\ hist = NoHist
  /\ profileName = "Alice" /\ saved = <<>> /\ other = NoOther /\ calls = <<>>
  /\ PagesInit
  /\ topic = <<"a">> /\ difficulty \in Difficulties /\ apiKey = <<"k">>
  /\ isGenerating = FALSE /\ keyFetch = "none"
  /\ pc = "idle" /\ closure = NoClosure /\ net = NoResponse
  /\ chainCards = <<>> /\ chainSession = 0
  /\ hasGeminiKey = (variant # "openai") /\ loading = FALSE
  /\ showGenerator = (variant # "openai") /\ showStudyMode = FALSE
  /\ flashcards = <<>>
  /\ currentView = (IF variant = "openai" THEN "generate" ELSE "home")
  /\ settingsKey = (IF variant = "openai" THEN <<>> ELSE <<"k">>)
  /\ sessions = <<>> /\ sessionCards = <<>> /\ nextId = 1 /\ clock = 1
  /\ gen = NoGen

NextBusy ==
  \/ ClickGenerate
  \/ SubmitBeforeRender
  \/ ProviderResponds(StoreResponses)
  \/ ResumeAfterFetch
  \/ SessionInsertReturns
  \/ CardsInsertReturns
  \/ \E i \in 1..Len(calls) : FollowOther(i)

SpecBusy == InitBusy /\ [][NextBusy]_vars

\* The history view of a user with a few saved sessions, who deletes some of
\* them, possibly before an earlier delete has returned.
InitDelete ==
  /\ variant = "generic"
  /\ showHistory = FALSE /\ histSessions = <<>> /\ histLoading = TRUE
  /\ histReqs = <<>> /\ hist = NoHist
  /\ profileName = "Alice" /\ saved = <<>> /\ other = NoOther /\ calls = <<>>
  /\ PagesInit
  /\ topic = <<>> /\ difficulty = "intermediate" /\ apiKey = <<>>
  /\ isGenerating = FALSE /\ keyFetch = "none"
  /\ pc = "idle" /\ closure = NoClosure /\ net = NoResponse
  /\ chainCards = <<>> /\ chainSession = 0
  /\ hasGeminiKey = TRUE /\ loading = FALSE
  /\ showGenerator = FALSE /\ showStudyMode = FALSE
  /\ flashcards = <<>> /\ currentView = "home"
  /\ settingsKey = <<"k">>
  /\ sessions \in {HistoryTable(n, 0, 0) : n \in 1..MaxListed}
  /\ sessionCards = <<>>
  /\ nextId = Len(sessions) + 1 /\ clock = Len(sessions) + 1
  /\ gen = NoGen

NextDelete ==
  \/ DashboardOpenHistory
  \/ handleBackFromHistory
  \/ \E sid \in ListedIds : deleteSession(sid)
  \/ \E i \in 1..Len(histReqs) : StorageServes(i)
  \/ \E i \in 1..Len(histReqs) : fetchSessionsReturns(i)
  \/ \E i \in 1..Len(histReqs) : deleteSessionReturns(i)

SpecDelete == InitDelete /\ [][NextDelete]_vars

\* The cards of a loaded session of n cards.
StudyCards(n) ==
  [i \in 1..n |->
     LoadedCard(StoredCard(i, FlashcardInsert("generic", 1, CardFull), 1))]

\* StudyMode just mounted by the Dashboard with a non-empty list.
InitStudy ==
  /\ variant = "generic"
  /\ showHistory = FALSE /\ histSessions = <<>> /\ histLoading = TRUE
  /\ histReqs = <<>> /\ hist = NoHist
  /\ profileName = "Alice" /\ saved = <<>> /\ other = NoOther /\ calls = <<>>
  /\ PagesInit
  /\ topic = <<>> /\ difficulty = "intermediate" /\ apiKey = <<>>
  /\ isGenerating = FALSE /\ keyFetch = "none"
  /\ pc = "idle" /\ closure = NoClosure /\ net = NoResponse
  /\ chainCards = <<>> /\ chainSession = 0
  /\ hasGeminiKey = TRUE /\ loading = FALSE
  /\ showGenerator = FALSE /\ showStudyMode = TRUE
  /\ flashcards \in {StudyCards(n) : n \in 1..MaxStudyCards}
  /\ currentView = "home"
  /\ settingsKey = <<"k">>
  /\ sessions = <<>> /\ sessionCards = <<>> /\ nextId = 1 /\ clock = 1
  /\ gen = NoGen

NextStudy ==
  \/ handleFlip
  \/ StudyNext
  \/ handlePrevious
  \/ handleCorrect
  \/ handleIncorrect
  \/ resetStudy

SpecStudy == InitStudy /\ [][NextStudy]_vars

\* The Settings page of a user whose row the signup trigger created, or of a
\* user from before the trigger, with no row; the Dashboard is not mounted.
InitSettings ==
  /\ variant = "generic"
  /\ showHistory = FALSE /\ histSessions = <<>> /\ histLoading = TRUE
  /\ histReqs = <<>> /\ hist = NoHist
  /\ profileName = "Alice" /\ saved = <<>> /\ other = NoOther /\ calls = <<>>
  /\ StudyInit
  /\ route = "/settings"
  /\ settingsPage = NoSettingsPage
  /\ settingsRows \in {0, 1}
  /\ topic = <<>> /\ difficulty = "intermediate" /\ apiKey = <<>>
  /\ isGenerating = FALSE /\ keyFetch = "none"
  /\ pc = "idle" /\ closure = NoClosure /\ net = NoResponse
  /\ chainCards = <<>> /\ chainSession = 0
  /\ hasGeminiKey = FALSE /\ loading = TRUE
  /\ showGenerator = FALSE /\ showStudyMode = FALSE
  /\ flashcards = <<>> /\ currentView = "home"
  /\ settingsKey = <<>>
  /\ sessions = <<>> /\ sessionCards = <<>> /\ nextId = 1 /\ clock = 1
  /\ gen = NoGen

NextSettings ==
  \/ \E k \in Keys : setGeminiApiKey(k)
  \/ handleSaveSettings
  \/ SaveSettingsReturns
  \/ navigateDashboard
  \/ DashboardOpenSettings
  \/ checkGeminiApiKey
  \/ DashboardOpenGenerator
  \/ handleBackFromGenerator
  \/ fetchGeminiApiKey

SpecSettings == InitSettings /\ [][NextSettings]_vars

\* A pending promise settles and its continuation runs: the provider call
\* answers or the transport gives up, a storage request answers or fails,
\* and the event loop resumes the awaiting function.
ChainStep(responses) ==
  \/ ProviderResponds(responses)
  \/ ResumeAfterFetch
  \/ SessionInsertReturns
  \/ CardsInsertReturns

\* One generation from its dispatch, whose pending steps are eventually taken.
NextLive == ChainStep(AllResponses)

SpecLive == InitGen /\ [][NextLive]_vars /\ WF_vars(ChainStep(AllResponses))

\* One generation of a persisting version while the user walks through the
\* Dashboard: back from the generator, the generator again, the history.
NextLeave ==
  \/ ChainStep(StoreResponses)
  \/ handleBackFromGenerator
  \/ DashboardOpenGenerator
  \/ fetchGeminiApiKey
  \/ DashboardOpenHistory
  \/ handleBackFromHistory
  \/ \E i \in 1..Len(histReqs) : StorageServes(i)
  \/ \E i \in 1..Len(histReqs) : fetchSessionsReturns(i)

SpecLeave == InitStore /\ [][NextLeave]_vars /\ WF_vars(ChainStep(StoreResponses))

\* ------------------------------------------------------------ reading the claims
\* Nothing but whitespace: empty after trimming.
IsBlank(str) == \A i \in 1..Len(str) : str[i] = " "

LastToast == gen.toasts[Len(gen.toasts)]

ErrorToastsOf(g) == {i \in 1..Len(g.toasts) : g.toasts[i].kind = "error"}

SuccessToastsOf(g) == {i \in 1..Len(g.toasts) : g.toasts[i].kind = "success"}

\* The call got a success status and a body with the text path.
GotTextIn(g) == g.resp.kind = "http" /\ HttpOk(g.resp.status) /\ g.resp.body = "text"

GotErrorStatusIn(g) == g.resp.kind = "http" /\ ~HttpOk(g.resp.status)

GotText == GotTextIn(gen)

GotErrorStatus == GotErrorStatusIn(gen)

\* The raw text is one JSON value (whitespace around it aside).
IsJsonText(text) ==
  \E i \in 1..Len(text) :
    /\ text[i].k = "json"
    /\ \A j \in 1..Len(text) : j # i => text[j].k = "ws"

JsonOf(text) == (CHOOSE t \in {text[i] : i \in 1..Len(text)} : t.k = "json").v

IsEnvelope(v) == v.ty = "object" /\ v.fc = "array"

\* The fenced blocks of the text: two fences with no fence in between.
FencedPairs(text) ==
  {q \in (1..Len(text)) \X (1..Len(text)) :
     /\ q[1] < q[2]
     /\ text[q[1]].k = "fence" /\ text[q[2]].k = "fence"
     /\ \A m \in (q[1] + 1)..(q[2] - 1) : text[m].k # "fence"}

\* What a block holds after its optional json tag.
FencedBody(text, q) ==
  LET inner == SubSeq(text, q[1] + 1, q[2] - 1)
  IN  IF inner # <<>> /\ inner[1].k = "tag" THEN Tail(inner) ELSE inner

\* The JSON values that are the whole content of some fenced block.
FencedDocs(text) ==
  {JsonOf(FencedBody(text, q)) :
     q \in {p \in FencedPairs(text) : IsJsonText(FencedBody(text, p))}}

\* A card with neither a front-equivalent nor a back-equivalent field.
MissingBothSides(c) ==
  /\ c.front = Absent /\ c.german_word = Absent
  /\ c.back = Absent /\ c.english_meaning = Absent

UsableCards(cs) == SelectSeq(cs, LAMBDA c : ~MissingBothSides(c))

CardDifficulties == {"easy", "medium", "hard"}

\* The canonical Flashcard of a front/back card, defaults filled in.
Canonical(c) ==
  [c EXCEPT !.additional_info = IF c.additional_info = Absent THEN "" ELSE c.additional_info,
            !.difficulty = IF c.difficulty \in CardDifficulties THEN c.difficulty
                           ELSE "medium"]

\* C1: generateFlashcards called with a topic that is blank or with an empty
\* key ends at once: no provider call, no insert, no callback, isGenerating
\* not set, nothing left in flight.
C1_RejectedBeforeDispatch ==
  (gen.run /\ (IsBlank(gen.topic) \/ gen.key = <<>>))
    => /\ gen.fetches = 0
       /\ gen.sessionInserts = 0 /\ gen.cardInserts = 0
       /\ gen.callbacks = 0
       /\ ~isGenerating
       /\ pc = "idle"

C1_Witness ==
  /\ gen.run /\ gen.done
  /\ IsBlank(gen.topic) /\ gen.key # <<>>
  /\ Len(gen.toasts) = 1 /\ LastToast.kind = "error"

\* C2: a call with a non-blank topic and a non-blank key makes exactly one
\* outbound provider call, from dispatch to its end, whatever the response.
C2_ExactlyOneCall ==
  (gen.run /\ ~IsBlank(gen.topic) /\ ~IsBlank(gen.key)) => gen.fetches = 1

C2_Witness ==
  /\ gen.run /\ gen.done
  /\ ~IsBlank(gen.topic) /\ ~IsBlank(gen.key)
  /\ GotErrorStatus
  /\ gen.fetches = 1

\* C3: raw text that is not JSON itself but holds a fenced block (optionally
\* tagged json) with a {"flashcards": [...]} document is normalized to the
\* cards of that block, in every version of the generator.
C3_FencedBlockAccepted ==
  (/\ gen.done /\ GotText
   /\ ~IsJsonText(gen.resp.text)
   /\ \E v \in FencedDocs(gen.resp.text) : IsEnvelope(v))
    => /\ gen.callbacks = 1
       /\ \E v \in FencedDocs(gen.resp.text) : IsEnvelope(v) /\ gen.delivered = v.cards

\* C4: raw text that is neither JSON nor holds a fenced JSON block ends in
\* the malformed-response error, and the call issues no insert.
C4_GarbageIsMalformed ==
  (/\ gen.done /\ GotText
   /\ ~IsJsonText(gen.resp.text)
   /\ FencedDocs(gen.resp.text) = {})
    => /\ LastToast.kind = "error" /\ LastToast.msg = MsgParse
       /\ gen.callbacks = 0
       /\ gen.sessionInserts = 0 /\ gen.cardInserts = 0
       /\ sessions = <<>> /\ sessionCards = <<>>

\* C5: text that parses to a value without a `flashcards` array ends in the
\* unexpected-shape error, not the malformed-response error, and the cards
\* callback is not invoked.
C5_WrongShapeRejected ==
  (/\ gen.done /\ GotText
   /\ IsJsonText(gen.resp.text)
   /\ ~IsEnvelope(JsonOf(gen.resp.text)))
    => /\ LastToast.kind = "error" /\ LastToast.msg = MsgFormat
       /\ gen.callbacks = 0

\* C6: cards missing both sides are dropped from the result without failing
\* the batch; a result left empty fails the generation: no session insert,
\* no callback, no success message.
C6_UnusableCardsDropped ==
  (/\ gen.done /\ GotText
   /\ IsJsonText(gen.resp.text)
   /\ IsEnvelope(JsonOf(gen.resp.text)))
    => LET kept == UsableCards(JsonOf(gen.resp.text).cards)
       IN  IF kept = <<>>
           THEN /\ gen.callbacks = 0
                /\ gen.sessionInserts = 0
                /\ SuccessToastsOf(gen) = {}
                /\ LastToast.kind = "error"
           ELSE /\ gen.callbacks = 1
                /\ Len(gen.delivered) = Len(kept)

\* C7: front/back cards reach the caller and session_flashcards with the
\* defaults filled in: additionalInfo "" when absent, difficulty "medium"
\* when absent or unrecognized, everything else copied.
C7_DefaultsFilled ==
  (/\ gen.done /\ GotText
   /\ IsJsonText(gen.resp.text)
   /\ IsEnvelope(JsonOf(gen.resp.text))
   /\ \A i \in 1..Len(JsonOf(gen.resp.text).cards) :
        /\ JsonOf(gen.resp.text).cards[i].front # Absent
        /\ JsonOf(gen.resp.text).cards[i].back # Absent
   /\ gen.callbacks = 1)
    => LET cs == JsonOf(gen.resp.text).cards
       IN  /\ gen.delivered = [i \in 1..Len(cs) |-> Canonical(cs[i])]
           /\ \A r \in 1..Len(sessionCards) :
                /\ sessionCards[r].example_sentence # Absent
                /\ sessionCards[r].difficulty \in CardDifficulties

\* C8: a non-success HTTP status ends the call in the provider-request error
\* carrying the status code, whatever the body is (JSON or not); the error is
\* shown to the user and the request is not repeated.
C8_StatusCarried ==
  (gen.done /\ GotErrorStatus)
    => /\ LastToast.kind = "error" /\ LastToast.msg = MsgRequest
       /\ LastToast.status = gen.resp.status
       /\ gen.callbacks = 0
       /\ gen.fetches = 1

\* C9: when the session insert or the card insert fails, the failure is
\* reported as a warning and the call still succeeds: the callback gets
\* exactly the generated cards and the host shows them.
C9_SaveFailureNonFatal ==
  (gen.done /\ gen.saveError # "none")
    => /\ \E i \in ErrorToastsOf(gen) : gen.toasts[i].msg = MsgSaveFailed
       /\ Cardinality(ErrorToastsOf(gen)) = 1
       /\ LastToast.kind = "success"
       /\ gen.callbacks = 1
       /\ gen.delivered = JsonOf(gen.resp.text).cards
       /\ flashcards = gen.delivered
       /\ ~isGenerating /\ pc = "idle"

C9_Witness ==
  /\ gen.done /\ gen.saveError = "cards"
  /\ Len(sessions) = 1 /\ sessionCards = <<>>
  /\ gen.callbacks = 1 /\ Len(gen.delivered) = 2

\* The error cases of the generation path other than persistence.
ErrorCase(g) ==
  \/ IsBlank(g.topic) \/ g.key = <<>>
  \/ g.resp.kind = "reject"
  \/ GotErrorStatusIn(g)
  \/ /\ GotTextIn(g)
     /\ \/ ~IsJsonText(g.resp.text) /\ FencedDocs(g.resp.text) = {}
        \/ IsJsonText(g.resp.text) /\ ~IsEnvelope(JsonOf(g.resp.text))
        \/ /\ IsJsonText(g.resp.text) /\ IsEnvelope(JsonOf(g.resp.text))
           /\ UsableCards(JsonOf(g.resp.text).cards) = <<>>

\* C10: a call that ends in one of these errors does not invoke the
\* callback, leaves the host's cards and view as they were, and shows exactly
\* one error message.
C10_ErrorsAbort ==
  [][(gen' # gen /\ gen'.done /\ ErrorCase(gen'))
       => /\ gen'.callbacks = 0
          /\ UNCHANGED <<flashcards, showGenerator, showStudyMode, currentView>>
          /\ Len(gen'.toasts) = 1 /\ gen'.toasts[1].kind = "error"]_vars

\* The call is suspended in saveFlashcardSession.
SavePending == pc \in {"awaitSessionInsert", "awaitCardsInsert"}

\* C11: within one generation the flashcard_sessions insert is issued only
\* after that generation's response was parsed and passed the shape check:
\* never while the provider call is pending, never for a response that is not
\* a {"flashcards": [...]} document.
C11_PersistAfterNormalize ==
  /\ pc = "awaitFetch" => (gen.sessionInserts = 0 /\ sessions = <<>>)
  /\ (gen.sessionInserts > 0 \/ sessions # <<>>)
       => /\ GotText
          /\ IsJsonText(gen.resp.text)
          /\ IsEnvelope(JsonOf(gen.resp.text))
          /\ gen.sessionInserts = 1

C11_Witness ==
  /\ pc = "awaitSessionInsert"
  /\ gen.sessionInserts = 1
  /\ Len(chainCards) = 2
  /\ sessions = <<>>

\* C12: in the persisting versions the callback fires only on the step that
\* ends the persistence attempt (an insert failed, or the card insert
\* succeeded); while an insert is pending the callback has not fired and the
\* busy flag is set, and the flag is still set when the callback fires.
C12_CallbackAfterPersistence ==
  /\ [](SavePending => (gen.callbacks = 0 /\ isGenerating))
  /\ [][(variant # "openai" /\ gen'.callbacks > gen.callbacks)
          => /\ SavePending /\ pc' = "idle"
             /\ isGenerating
             /\ gen.sessionInserts = 1
             /\ (gen'.saveError # "none" \/ gen.cardInserts = 1)]_vars

C12_Witness ==
  /\ variant = "german"
  /\ gen.done /\ gen.callbacks = 1 /\ gen.saveError = "none"
  /\ Len(sessionCards) = 1
  /\ ~isGenerating

\* C13: a generation whose normalization and persistence both succeed leaves
\* exactly one flashcard_sessions row, owned by the user, with the submitted
\* topic, the request difficulty and flashcard_count = N, the number of cards
\* handed to the caller, and exactly N session_flashcards rows, all of that
\* session; a generation that fails (no cards handed over) leaves no row.
C13_OneSessionPerSuccess ==
  (gen.done /\ variant # "openai")
    => /\ (gen.callbacks = 1 /\ gen.saveError = "none")
            => /\ Len(sessions) = 1
               /\ sessions[1].user_id = User
               /\ sessions[1].topic = gen.topic
               /\ sessions[1].difficulty = gen.difficulty
               /\ sessions[1].flashcard_count = Len(gen.delivered)
               /\ Len(sessionCards) = Len(gen.delivered)
               /\ \A r \in 1..Len(sessionCards) :
                    sessionCards[r].session_id = sessions[1].id
       /\ gen.callbacks = 0 => (sessions = <<>> /\ sessionCards = <<>>)

C13_Witness ==
  /\ gen.done /\ gen.callbacks = 1 /\ gen.saveError = "none"
  /\ Len(sessions) = 1 /\ sessions[1].difficulty = "advanced"
  /\ Len(sessionCards) = 2

\* The four fields of a card as the study model names them: a generated card
\* carries them as front/back/additional_info or as
\* german_word/english_meaning/example_sentence.
FourFields(c) ==
  [front |-> IF c.front # Absent THEN c.front ELSE c.german_word,
   back |-> IF c.back # Absent THEN c.back ELSE c.english_meaning,
   additionalInfo |-> IF c.additional_info # Absent THEN c.additional_info
                      ELSE c.example_sentence,
   difficulty |-> c.difficulty]

FourFieldsLoaded(c) ==
  [front |-> c.front, back |-> c.back, additionalInfo |-> c.additional_info,
   difficulty |-> c.difficulty]

\* How often each value occurs in a sequence.
BagOf(seq) == [x \in Range(seq) |-> Cardinality({i \in 1..Len(seq) : seq[i] = x})]

SavedFields(e) == [i \in 1..Len(e.cards) |-> FourFields(e.cards[i])]

LoadedFields == [i \in 1..Len(hist.lastLoad.cards) |-> FourFieldsLoaded(hist.lastLoad.cards[i])]

\* C14: the cards loadSession hands over for a session that
\* saveFlashcardSession stored are, card for card, the stored cards with equal
\* front, back, additionalInfo and difficulty, for front/back cards and for
\* german_word cards (nothing comes back only when the session was deleted).
C14_RoundTrip ==
  \A e \in Range(saved) :
    hist.lastLoad.sid = e.sid /\ hist.lastLoad.stored
      => \/ BagOf(LoadedFields) = BagOf(SavedFields(e))
         \/ hist.lastLoad.cards = <<>> /\ e.sid \notin SessionIds

C14_Witness ==
  /\ variant = "german"
  /\ \E e \in Range(saved) : hist.lastLoad.sid = e.sid /\ e.sid \in SessionIds
  /\ hist.lastLoad.stored
  /\ Len(hist.lastLoad.cards) = 2
  /\ flashcards = hist.lastLoad.cards

CardsOf(sid, cards) == SelectSeq(cards, LAMBDA c : c.session_id = sid)

\* C15: once deleteSession has succeeded for a session, no session_flashcards
\* row references it and loadSession for it gets the empty sequence.
C15_DeletedSessionHasNoCards ==
  \A sid \in hist.deletedOk :
    /\ CardsOf(sid, sessionCards) = <<>>
    /\ SelectCards(User, sid, sessionCards, sessions) = {<<>>}

C15_Witness ==
  /\ hist.deletedOk # {}
  /\ \E e \in Range(saved) : e.sid \in hist.deletedOk /\ Len(e.cards) = 2
  /\ sessionCards = <<>>

\* C16: every session_flashcards row references an existing
\* flashcard_sessions row, whatever the interleaving of saves, loads and
\* deletes; the cards of a session disappear only in the step that removes
\* the session, and a session is never removed with cards left.
C16_NoOrphanCards ==
  /\ [](\A c \in Range(sessionCards) : c.session_id \in SessionIds)
  /\ [][\A sid \in SessionIds :
          /\ sid \notin SessionIds' => CardsOf(sid, sessionCards') = <<>>
          /\ sid \in SessionIds'
               => Len(CardsOf(sid, sessionCards')) >= Len(CardsOf(sid, sessionCards))]_vars

C16_Witness ==
  /\ variant = "generic"
  /\ gen.done /\ gen.saveError = "cards" /\ gen.delivered = <<CardFull>>
  /\ hist.deletedOk # {}
  /\ sessions = <<>> /\ sessionCards = <<>>

\* C17: no read of the second user returns a flashcard_sessions row of the
\* user or a session_flashcards row of one of the user's sessions.
C17_ReadIsolation == \A x \in other.saw : x.owner # User

C17_Witness ==
  /\ \E x \in other.saw : x.owner = Other
  /\ \E r \in Range(sessions) : r.user_id = User
  /\ \E c \in Range(sessionCards) : OwnerOf(c.session_id, sessions) = User

OwnSessions(tbl) == SelectSeq(tbl, LAMBDA r : r.user_id = User)

\* C18: no request of the second user changes a row of the user in
\* flashcard_sessions, session_flashcards (cards of the user's sessions),
\* profiles or user_settings, a delete by session id and inserts under the
\* user's id or session included.
C18_WriteIsolation ==
  [][OtherActs
       => /\ OwnSessions(sessions') = OwnSessions(sessions)
          /\ \A r \in Range(OwnSessions(sessions)) :
               CardsOf(r.id, sessionCards') = CardsOf(r.id, sessionCards)
          /\ UNCHANGED <<profileName, settingsKey>>]_vars

C18_Witness ==
  /\ other.wrote = "refused" /\ other.made = 2
  /\ \E r \in Range(sessions) : r.user_id = User
  /\ \E c \in Range(sessionCards) : OwnerOf(c.session_id, sessions) = User

\* The list is at most SessionLimit rows of the user, newest first, and no
\* row of the user left out is newer than one that is in it.
MostRecentOwn(list) ==
  /\ Len(list) <= SessionLimit
  /\ \A i \in 1..Len(list) : list[i] \in Range(sessions) /\ list[i].user_id = User
  /\ \A i, j \in 1..Len(list) :
       i < j => list[i] # list[j] /\ list[i].created_at >= list[j].created_at
  /\ \A r \in Range(OwnSessions(sessions)) :
       r \notin Range(list)
         => /\ Len(list) = SessionLimit
            /\ \A i \in 1..Len(list) : list[i].created_at >= r.created_at

\* C19: what fetchSessions gets, and puts into the view, is at most 10
\* sessions, all of the user, in non-increasing created_at order, and they
\* are the user's most recent ones.
C19_MostRecentTen ==
  /\ \A i \in 1..Len(histReqs) :
       histReqs[i].op = "fetch" /\ histReqs[i].reply # NoReply /\ histReqs[i].reply.ok
         => MostRecentOwn(histReqs[i].reply.rows)
  /\ histSessions # <<>> => MostRecentOwn(histSessions)

C19_Witness ==
  /\ HistoryShown /\ ~histLoading
  /\ Len(histSessions) = SessionLimit
  /\ Len(OwnSessions(sessions)) > SessionLimit
  /\ \E r \in Range(sessions) :
       r.user_id = Other /\ r.created_at > histSessions[SessionLimit].created_at
  /\ \E i \in 1..(SessionLimit - 1) :
       histSessions[i].created_at = histSessions[i + 1].created_at

\* The generateFlashcards calls that have dispatched and not finished.
InFlight == (IF pc # "idle" THEN 1 ELSE 0) + Len(calls)

\* C20: at most one generation is in flight per generator view at any time,
\* two submits before the view re-renders included.
C20_OneInFlight == InFlight <= 1

\* C22: the sequence loadSession hands over for a stored session is the
\* sequence saveFlashcardSession stored, in the same order.
C22_LoadedInSavedOrder ==
  \A e \in Range(saved) :
    hist.lastLoad.sid = e.sid /\ hist.lastLoad.stored /\ e.sid \in SessionIds
      => LoadedFields = SavedFields(e)

\* C24: every flashcard_sessions row has flashcard_count equal to the number
\* of session_flashcards rows that reference it, in every state.
C24_CountMatchesCards ==
  \A r \in Range(sessions) : r.flashcard_count = Len(CardsOf(r.id, sessionCards))

\* C28: on the Dashboard the study view is shown iff showStudyMode is true and
\* flashcards is non-empty, and at most one of showStudyMode, showGenerator
\* and showHistory is true.
C28_OneViewAtATime ==
  OnDashboard
    => /\ StudyShown <=> (showStudyMode /\ flashcards # <<>>)
       /\ ~(showStudyMode /\ showGenerator)
       /\ ~(showStudyMode /\ showHistory)
       /\ ~(showGenerator /\ showHistory)

\* C30: the topic and difficulty of a session row are those of the form at
\* the moment of the submit, which are those the request to the provider was
\* built from, whatever the user types while the call is in flight.
C30_SubmittedValuesPersisted ==
  [][Len(sessions') = Len(sessions) + 1
       => LET row == sessions'[Len(sessions')]
          IN  /\ row.topic = gen.topic /\ row.difficulty = gen.difficulty
              /\ row.topic = closure.topic /\ row.difficulty = closure.difficulty]_vars

C30_Witness ==
  /\ GeneratorShown /\ pc = "awaitCardsInsert"
  /\ sessions # <<>>
  /\ sessions[Len(sessions)].topic = gen.topic
  /\ sessions[Len(sessions)].difficulty = gen.difficulty
  /\ topic # gen.topic /\ difficulty # gen.difficulty

\* The callback has run: the Dashboard holds the generated cards and is in
\* study mode (the study view itself needs a non-empty list).
HandedOver ==
  /\ gen.done /\ gen.callbacks = 1
  /\ flashcards = gen.delivered
  /\ showStudyMode /\ ~showGenerator
  /\ flashcards # <<>> => StudyShown

\* C23: whatever view the user moves to while the provider call or a storage
\* write is pending, the call runs to its end; once the result has passed the
\* shape check the callback fires and puts the Dashboard into study mode with
\* the generated cards, and the session of a save that did not fail is stored.
C23_NotCancellable ==
  /\ (pc # "idle") ~> gen.done
  /\ (pc = "awaitSessionInsert") ~> HandedOver
  /\ [](gen.done /\ gen.callbacks = 1 /\ gen.saveError = "none"
          => /\ Len(sessions) = 1
             /\ sessions[1].flashcard_count = Len(gen.delivered)
             /\ Len(CardsOf(sessions[1].id, sessionCards)) = Len(gen.delivered))

C23_Witness ==
  /\ HandedOver /\ StudyShown
  /\ showHistory
  /\ gen.saveError = "none" /\ Len(sessions) = 1 /\ Len(sessionCards) = 2

\* C25: a generation that has set isGenerating sets it back to false on every
\* path, and the flag is true exactly while the call is in flight.
C25_BusyEnds ==
  /\ isGenerating ~> ~isGenerating
  /\ [](isGenerating <=> pc # "idle")

C25_Witness ==
  /\ ~isGenerating /\ pc = "idle"
  /\ gen.done /\ gen.fetches = 1
  /\ Len(gen.toasts) = 1 /\ gen.toasts[1].kind = "error"

\* C29: once every deleteSession call has returned, the list shown is the
\* fetched list without the sessions whose delete succeeded, also when calls
\* were issued before an earlier one had returned.
C29_ListAfterDeletes ==
  HistoryShown /\ ~histLoading /\ histReqs = <<>>
    => ListedIds = hist.fetched \ hist.deletedOk

\* C26: with a non-empty list, 0 <= currentIndex <= totalCards - 1 after any
\* sequence of study actions; the index moves by one card at most and stays
\* at the ends; every change of the index turns the card face up again; reset
\* restores index 0, the front face and both counters 0.
C26_IndexInRange ==
  /\ [](currentIndex >= 0 /\ currentIndex <= totalCards - 1)
  /\ [][currentIndex' # currentIndex => ~isFlipped']_vars
  /\ [][StudyNext /\ currentIndex = totalCards - 1 => currentIndex' = currentIndex]_vars
  /\ [][handlePrevious /\ currentIndex = 0 => currentIndex' = currentIndex]_vars
  /\ [][resetStudy => /\ currentIndex' = 0 /\ ~isFlipped'
                      /\ correctAnswers' = 0 /\ incorrectAnswers' = 0]_vars

C26_Witness ==
  /\ totalCards = 3 /\ currentIndex = totalCards - 1
  /\ isFlipped
  /\ correctAnswers + incorrectAnswers = 3

\* C27: since the last reset correctAnswers + incorrectAnswers <= totalCards.
C27_EachCardCountedOnce == correctAnswers + incorrectAnswers <= totalCards

\* C21: a save of a non-empty key K that reaches the storage reports success
\* and leaves K in the user's user_settings row, so that every later read by
\* checkGeminiApiKey or fetchGeminiApiKey gets K; this for a user whose row
\* the signup trigger created as well; and the user never has two rows.
C21_ReadYourWrites ==
  /\ [](settingsRows <= 1)
  /\ [](settingsPage.toast = "success"
          => settingsKey = settingsPage.sent /\ settingsKey # <<>>)
  /\ [][SaveSettingsReturns /\ settingsPage'.code # "network"
          => /\ settingsPage'.toast = "success"
             /\ settingsKey' = settingsPage.upsert]_vars

====
